---------------------------- MODULE Spec2Model ----------------------------
(***************************************************************************)
(* A model of the protobuf-ts binary codec: the BinaryWriter (a growable   *)
(* byte emitter with a fork/join stack) and the ReflectionBinaryReader     *)
(* (the reflection driven decoder of the proto3 wire format).              *)
(*                                                                         *)
(* Bytes are naturals 0..255, byte sequences are TLA+ sequences.  Machine  *)
(* words are bit sequences, so that 32- and 64-bit values keep their       *)
(* width.                                                                  *)
(***************************************************************************)
EXTENDS Integers, Sequences, FiniteSets, TLC

(***************************************************************************)
(* Bounds of the model.                                                    *)
(***************************************************************************)
\* The number of writer calls in one behaviour of the fork/join specification.
MaxOps == 5
\* The number of writer calls in one behaviour that uses every write method.
MaxCalls == 4

(***************************************************************************)
(* Machine integers.  A 32- or 64-bit word is a sequence of bits, least    *)
(* significant first; the host's bit operators act on it position by       *)
(* position.                                                               *)
(***************************************************************************)
RECURSIVE MinBits(_)
\* The bits of the natural n, least significant first, no leading zero.
MinBits(n) == IF n = 0 THEN << >> ELSE << n % 2 >> \o MinBits(n \div 2)

\* The word of width w that holds the low w bits of b.
Pad(b, w) == [i \in 1..w |-> IF i <= Len(b) THEN b[i] ELSE 0]

BvNot(b) == [i \in 1..Len(b) |-> 1 - b[i]]
BvXor(a, b) == [i \in 1..Len(a) |-> (a[i] + b[i]) % 2]
BvOr(a, b) == [i \in 1..Len(a) |-> IF a[i] + b[i] > 0 THEN 1 ELSE 0]
BvAnd(a, b) == [i \in 1..Len(a) |-> a[i] * b[i]]
\* b << k, b >>> k and b >> k within the width of b
BvShl(b, k) == [i \in 1..Len(b) |-> IF i <= k THEN 0 ELSE b[i - k]]
BvShr(b, k) == [i \in 1..Len(b) |-> IF i + k <= Len(b) THEN b[i + k] ELSE 0]
BvSar(b, k) == [i \in 1..Len(b) |-> IF i + k <= Len(b) THEN b[i + k] ELSE b[Len(b)]]

RECURSIVE BvInc(_)
\* b + 1 modulo 2^Len(b)
BvInc(b) ==
    IF b = << >> THEN << >>
    ELSE IF Head(b) = 0 THEN << 1 >> \o Tail(b) ELSE << 0 >> \o BvInc(Tail(b))

RECURSIVE BvVal(_)
\* The natural a word holds (for words below 2^31).
BvVal(b) == IF b = << >> THEN 0 ELSE Head(b) + 2 * BvVal(Tail(b))

\* b > 0x7f
BvAbove127(b) == \E i \in 8..Len(b) : b[i] = 1

RECURSIVE BvBytes(_)
\* The bytes of a word, least significant first (DataView.set*(.., true)).
BvBytes(b) ==
    IF b = << >> THEN << >>
    ELSE << BvVal(SubSeq(b, 1, 8)) >> \o BvBytes(SubSeq(b, 9, Len(b)))

RECURSIVE Flatten(_)
\* The concatenation of a sequence of byte sequences.
Flatten(ss) == IF ss = << >> THEN << >> ELSE Head(ss) \o Flatten(Tail(ss))

(***************************************************************************)
(* Host numbers.  A number is its sign, the bits of its magnitude and      *)
(* whether it has a fractional part, so that values outside the 32-bit     *)
(* range can be passed to the typed writes.                                *)
(***************************************************************************)
JsInt(i) == [neg |-> i < 0, mag |-> MinBits(IF i < 0 THEN -i ELSE i), frac |-> FALSE]
\* 2^k and -2^k
JsPow2(k) == [neg |-> FALSE, mag |-> [i \in 1..(k + 1) |-> IF i = k + 1 THEN 1 ELSE 0], frac |-> FALSE]
JsNegPow2(k) == [JsPow2(k) EXCEPT !.neg = TRUE]
\* 2^k - 1
JsOnes(k) == [neg |-> FALSE, mag |-> [i \in 1..k |-> 1], frac |-> FALSE]
JsHalf == [neg |-> FALSE, mag |-> << >>, frac |-> TRUE]

IsZero(n) == ~n.frac /\ \A i \in 1..Len(n.mag) : n.mag[i] = 0
\* the magnitude is below 2^k
MagBelow(n, k) == \A i \in (k + 1)..Len(n.mag) : n.mag[i] = 0
\* the magnitude is exactly 2^k
MagIsPow2(n, k) == Len(n.mag) > k /\ \A i \in 1..Len(n.mag) : n.mag[i] = (IF i = k + 1 THEN 1 ELSE 0)

\* The two's complement word of width w of an integer number.
TwosComp(n, w) == IF n.neg THEN BvInc(BvNot(Pad(n.mag, w))) ELSE Pad(n.mag, w)

\* assertUInt32 and assertInt32 of ./assert: an integer within the range.
IsUInt32(n) == ~n.frac /\ (~n.neg \/ IsZero(n)) /\ MagBelow(n, 32)
IsInt32(n) ==
    /\ ~n.frac
    /\ IF n.neg THEN MagBelow(n, 31) \/ MagIsPow2(n, 31) ELSE MagBelow(n, 31)

(***************************************************************************)
(* Varint encoding.                                                        *)
(***************************************************************************)
RECURSIVE VarintOf(_)
\* The inlined loop of BinaryWriter.uint32 on a word: low 7 bits per byte,
\* continuation flag in the high bit, least significant group first.
VarintOf(value) ==
    IF BvAbove127(value)
    THEN << BvVal(SubSeq(value, 1, 7)) + 128 >> \o VarintOf(BvShr(value, 7))
    ELSE << BvVal(SubSeq(value, 1, 7)) >>

\* goog-varint varint64write(lo, hi, bytes): the varint of the 64-bit value.
varint64write(lo, hi) == VarintOf(lo \o hi)

\* goog-varint varint32write(value, bytes): a value >= 0 as a plain varint, a
\* negative one sign-extended to 64 bits (ten bytes).
varint32write(n) ==
    IF n.neg /\ ~IsZero(n) THEN VarintOf(TwosComp(n, 64)) ELSE VarintOf(Pad(n.mag, 32))

\* PbLong.from / PbULong.from: the (lo, hi) halves, two's complement.
PbLongFrom(n) ==
    LET t == TwosComp(n, 64) IN [lo |-> SubSeq(t, 1, 32), hi |-> SubSeq(t, 33, 64)]

RECURSIVE Utf8(_)
\* TextEncoder.encode for code points below 0x800.
Utf8(s) ==
    IF s = << >> THEN << >>
    ELSE LET c == Head(s)
         IN  (IF c < 128 THEN << c >>
              ELSE << 192 + (c \div 64), 128 + (c % 64) >>) \o Utf8(Tail(s))

\* An IEEE-754 value is held by its fields: the sign, the biased exponent
\* and the leading digits of the binary fraction.  FloatWord lays them out in
\* a word with e exponent bits and m mantissa bits.
FloatWord(f, e, m) ==
    [i \in 1..m |-> IF m - i + 1 <= Len(f.digits) THEN f.digits[m - i + 1] ELSE 0]
        \o Pad(MinBits(f.exp), e) \o << f.sign >>

(***************************************************************************)
(* State.                                                                  *)
(***************************************************************************)
VARIABLES
    chunks,     \* BinaryWriter.chunks: the completed chunks
    buf,        \* BinaryWriter.buf: the in-progress buffer
    stack,      \* BinaryWriter.stack: the saved (chunks, buf) of the open forks
    wop,        \* the writer operation called last
    werr,       \* the error it raised, "none" if it returned
    wret,       \* the bytes the last finish() returned
    warg,       \* the argument of the last call, << >> if it takes none
    calls,      \* the number of calls the caller still makes
    base,       \* history: per open level, what the level held when it was last reset
    out,        \* history: per open level, the bytes the operations emitted since
    forks,      \* history: the number of fork() calls
    joins,      \* history: the number of join() calls that returned
    rbuf,       \* the cursor's buffer (reader.len is its length)
    ropt,       \* options.readUnknownField
    pos,        \* reader.pos
    rend,       \* end, as read() computed it
    message,    \* the target message of read()
    rstate,     \* "new", "reading", "returned" or "thrown"
    rerr,       \* the error read() raised, "none" if none
    rinfo,      \* what the error names
    ucalls,     \* the calls of the unknown-field handler, in call order
    wire,       \* history: the fields that were encoded into rbuf
    message0,   \* history: the target as it was when read() was called
    nread,      \* history: the number of iterations of the loop of read()
    iters       \* history: the number of iterations of all loops, inner ones included

wvars == << chunks, buf, stack, wop, werr, wret, warg, calls, base, out, forks, joins >>

rvars == << rbuf, ropt, pos, rend, message, rstate, rerr, rinfo, ucalls, wire, message0, nread,
           iters >>

\* The reader's variables while only the writer is run.
ReaderIdle ==
    /\ rbuf = << >> /\ ropt = "true" /\ pos = 0 /\ rend = 0 /\ message = << >>
    /\ rstate = "new" /\ rerr = "none" /\ rinfo = << >> /\ ucalls = << >>
    /\ wire = << >> /\ message0 = << >> /\ nread = 0 /\ iters = 0

(***************************************************************************)
(* BinaryWriter.  Each method is an operator on the writer's fields        *)
(* w = [chunks, buf, stack] that yields the fields after the call and the  *)
(* error raised, if any.                                                   *)
(***************************************************************************)
This == [chunks |-> chunks, buf |-> buf, stack |-> stack]

Ok(w) == [w |-> w, err |-> "none"]
Fail(w, e) == [w |-> w, err |-> e]

\* this.buf.push(...bytes)
Push(w, bytes) == [w EXCEPT !.buf = w.buf \o bytes]

\* constructor
NewWriter == [chunks |-> << >>, buf |-> << >>, stack |-> << >>]

\* finish(): the bytes returned and the fields left behind
finish(w) ==
    LET all == Append(w.chunks, w.buf)
    IN  [w |-> [w EXCEPT !.chunks = << >>], bytes |-> Flatten(all)]

fork(w) ==
    Ok([chunks |-> << >>, buf |-> << >>,
        stack |-> Append(w.stack, [chunks |-> w.chunks, buf |-> w.buf])])

raw(w, chunk) ==
    Ok(IF Len(w.buf) # 0
       THEN [w EXCEPT !.chunks = Append(Append(w.chunks, w.buf), chunk), !.buf = << >>]
       ELSE [w EXCEPT !.chunks = Append(w.chunks, chunk)])

\* uint32() that always writes five bytes.
uint32_fixedWidth(w, value) ==
    IF ~IsUInt32(value) THEN Fail(w, "RangeError")
    ELSE Ok(Push(w, [i \in 1..5 |-> BvVal(SubSeq(Pad(value.mag, 35), 7 * i - 6, 7 * i))
                                      + (IF i < 5 THEN 128 ELSE 0)]))

uint32(w, value) ==
    IF ~IsUInt32(value) THEN Fail(w, "RangeError")
    ELSE Ok(Push(w, VarintOf(Pad(value.mag, 32))))

\* join() that restores the saved chunks and keeps the fork's buffer.
join_keepsBuf(w) ==
    LET f == finish(w)
        chunk == f.bytes
    IN  IF f.w.stack = << >>
        THEN Fail(f.w, "EmptyForkStack")
        ELSE LET prev == f.w.stack[Len(f.w.stack)]
                 restored == [chunks |-> prev.chunks, buf |-> f.w.buf,
                              stack |-> SubSeq(f.w.stack, 1, Len(f.w.stack) - 1)]
                 u == uint32(restored, JsInt(Len(chunk)))
             IN  IF u.err # "none" THEN u ELSE raw(u.w, chunk)

\* join() that reads the last saved state and leaves it on the stack.
join_peeks(w) ==
    LET f == finish(w)
        chunk == f.bytes
    IN  IF f.w.stack = << >>
        THEN Fail(f.w, "EmptyForkStack")
        ELSE LET prev == f.w.stack[Len(f.w.stack)]
                 restored == [chunks |-> prev.chunks, buf |-> prev.buf,
                              stack |-> f.w.stack]
                 u == uint32(restored, JsInt(Len(chunk)))
             IN  IF u.err # "none" THEN u ELSE raw(u.w, chunk)

join(w) ==
    LET f == finish(w)
        chunk == f.bytes
    IN  IF f.w.stack = << >>
        THEN Fail(f.w, "EmptyForkStack")
        ELSE LET prev == f.w.stack[Len(f.w.stack)]
                 restored == [chunks |-> prev.chunks, buf |-> prev.buf,
                              stack |-> SubSeq(f.w.stack, 1, Len(f.w.stack) - 1)]
                 u == uint32(restored, JsInt(Len(chunk)))
             IN  IF u.err # "none" THEN u ELSE raw(u.w, chunk)

\* (fieldNo << 3 | type) >>> 0
TagWord(fieldNo, type) == BvOr(BvShl(Pad(MinBits(fieldNo), 32), 3), Pad(MinBits(type), 32))

tag(w, fieldNo, type) ==
    uint32(w, [neg |-> FALSE, mag |-> TagWord(fieldNo, type), frac |-> FALSE])

\* int32() without its assert.
int32_unchecked(w, value) == Ok(Push(w, varint32write(value)))

int32(w, value) ==
    IF ~IsInt32(value) THEN Fail(w, "RangeError")
    ELSE Ok(Push(w, varint32write(value)))

bool(w, value) == Ok(Push(w, << IF value THEN 1 ELSE 0 >>))

bytes(w, value) ==
    LET u == uint32(w, JsInt(Len(value)))
    IN  IF u.err # "none" THEN u ELSE raw(u.w, value)

string(w, value) ==
    LET chunk == Utf8(value)
        u == uint32(w, JsInt(Len(chunk)))
    IN  IF u.err # "none" THEN u ELSE raw(u.w, chunk)

float(w, value) == raw(w, BvBytes(FloatWord(value, 8, 23)))

double(w, value) == raw(w, BvBytes(FloatWord(value, 11, 52)))

fixed32(w, value) ==
    IF ~IsUInt32(value) THEN Fail(w, "RangeError")
    ELSE raw(w, BvBytes(Pad(value.mag, 32)))

sfixed32(w, value) ==
    IF ~IsInt32(value) THEN Fail(w, "RangeError")
    ELSE raw(w, BvBytes(TwosComp(value, 32)))

\* ((value << 1) ^ (value >> 31)) >>> 0
ZigZag32(value) ==
    LET v == TwosComp(value, 32) IN BvXor(BvShl(v, 1), BvSar(v, 31))

sint32(w, value) ==
    IF ~IsInt32(value) THEN Fail(w, "RangeError")
    ELSE Ok(Push(w, varint32write([neg |-> FALSE, mag |-> ZigZag32(value), frac |-> FALSE])))

sfixed64(w, value) ==
    LET long == PbLongFrom(value) IN raw(w, BvBytes(long.lo) \o BvBytes(long.hi))

fixed64(w, value) ==
    LET long == PbLongFrom(value) IN raw(w, BvBytes(long.lo) \o BvBytes(long.hi))

int64(w, value) ==
    LET long == PbLongFrom(value) IN Ok(Push(w, varint64write(long.lo, long.hi)))

sint64(w, value) ==
    LET long == PbLongFrom(value)
        sign == BvSar(long.hi, 31)
        lo == BvXor(BvShl(long.lo, 1), sign)
        hi == BvXor(BvOr(BvShl(long.hi, 1), BvShr(long.lo, 31)), sign)
    IN  Ok(Push(w, varint64write(lo, hi)))

uint64(w, value) ==
    LET long == PbLongFrom(value) IN Ok(Push(w, varint64write(long.lo, long.hi)))

(***************************************************************************)
(* The writer's operations as actions.  The arguments are drawn from small *)
(* sets; the history variables record what each call is expected to add.   *)
(***************************************************************************)
In_uint32 == {JsInt(1), JsInt(300)}
In_int32 == {JsInt(-1)}
In_sint32 == {JsInt(-2)}
In_bool == {TRUE}
In_int64 == {JsInt(-3)}
In_uint64 == {JsPow2(32)}
In_sint64 == {JsInt(-4)}
In_tag == {<< 1, 2 >>}
In_raw == {<< 7 >>, [i \in 1..130 |-> 9]}
In_bytes == {<< 5 >>}
In_string == {<< 233 >>}
In_float == {[sign |-> 0, exp |-> 127, digits |-> << 1 >>]}
In_double == {[sign |-> 1, exp |-> 1024, digits |-> << >>]}
In_fixed32 == {JsInt(6)}
In_sfixed32 == {JsInt(-1)}
In_fixed64 == {JsInt(10)}
In_sfixed64 == {JsInt(-1)}

\* What a finish() of w would return.
Content(w) == finish(w).bytes

\* The bytes a call emits when it is made on a new writer.
Emits(r) == Content(r.w)

\* The level a write goes to: the innermost open fork, or the writer itself.
Top == Len(out)

\* A write: the call's argument, its result r on this writer, and the bytes
\* it emits alone.
Write(name, arg, r, alone) ==
    /\ calls > 0
    /\ chunks' = r.w.chunks
    /\ buf' = r.w.buf
    /\ stack' = r.w.stack
    /\ wop' = name
    /\ werr' = r.err
    /\ wret' = << >>
    /\ warg' = arg
    /\ calls' = calls - 1
    /\ out' = IF r.err = "none" THEN [out EXCEPT ![Top] = @ \o alone] ELSE out
    /\ UNCHANGED << base, forks, joins, rvars >>

CallUint32 == \E v \in In_uint32 : Write("uint32", v, uint32(This, v), Emits(uint32(NewWriter, v)))
CallInt32 == \E v \in In_int32 : Write("int32", v, int32(This, v), Emits(int32(NewWriter, v)))
CallSint32 == \E v \in In_sint32 : Write("sint32", v, sint32(This, v), Emits(sint32(NewWriter, v)))
CallBool == \E v \in In_bool : Write("bool", v, bool(This, v), Emits(bool(NewWriter, v)))
CallInt64 == \E v \in In_int64 : Write("int64", v, int64(This, v), Emits(int64(NewWriter, v)))
CallUint64 == \E v \in In_uint64 : Write("uint64", v, uint64(This, v), Emits(uint64(NewWriter, v)))
CallSint64 == \E v \in In_sint64 : Write("sint64", v, sint64(This, v), Emits(sint64(NewWriter, v)))
CallTag == \E a \in In_tag : Write("tag", a, tag(This, a[1], a[2]), Emits(tag(NewWriter, a[1], a[2])))
CallRaw == \E v \in In_raw : Write("raw", v, raw(This, v), Emits(raw(NewWriter, v)))
CallBytes == \E v \in In_bytes : Write("bytes", v, bytes(This, v), Emits(bytes(NewWriter, v)))
CallString == \E v \in In_string : Write("string", v, string(This, v), Emits(string(NewWriter, v)))
CallFloat == \E v \in In_float : Write("float", v, float(This, v), Emits(float(NewWriter, v)))
CallDouble == \E v \in In_double : Write("double", v, double(This, v), Emits(double(NewWriter, v)))
CallFixed32 == \E v \in In_fixed32 : Write("fixed32", v, fixed32(This, v), Emits(fixed32(NewWriter, v)))
CallSfixed32 == \E v \in In_sfixed32 : Write("sfixed32", v, sfixed32(This, v), Emits(sfixed32(NewWriter, v)))
CallFixed64 == \E v \in In_fixed64 : Write("fixed64", v, fixed64(This, v), Emits(fixed64(NewWriter, v)))
CallSfixed64 == \E v \in In_sfixed64 : Write("sfixed64", v, sfixed64(This, v), Emits(sfixed64(NewWriter, v)))

CallFork ==
    LET r == fork(This)
    IN  /\ calls > 0
        /\ chunks' = r.w.chunks
        /\ buf' = r.w.buf
        /\ stack' = r.w.stack
        /\ wop' = "fork"
        /\ werr' = r.err
        /\ wret' = << >>
        /\ warg' = << >>
        /\ calls' = calls - 1
        /\ base' = Append(base, << >>)
        /\ out' = Append(out, << >>)
        /\ forks' = forks + 1
        /\ UNCHANGED << joins, rvars >>

CallFinish ==
    LET r == finish(This)
    IN  /\ calls > 0
        /\ chunks' = r.w.chunks
        /\ buf' = r.w.buf
        /\ stack' = r.w.stack
        /\ wop' = "finish"
        /\ werr' = "none"
        /\ wret' = r.bytes
        /\ warg' = << >>
        /\ calls' = calls - 1
        /\ base' = [base EXCEPT ![Top] = Content(r.w)]
        /\ out' = [out EXCEPT ![Top] = << >>]
        /\ UNCHANGED << forks, joins, rvars >>

\* The words join() is expected to add below the fork: the uint32 varint of
\* the length of the fork's output, then that output.
Region(w) == Emits(uint32(NewWriter, JsInt(Len(w)))) \o w

CallJoin ==
    LET r == join(This)
    IN  /\ calls > 0
        /\ chunks' = r.w.chunks
        /\ buf' = r.w.buf
        /\ stack' = r.w.stack
        /\ wop' = "join"
        /\ werr' = r.err
        /\ wret' = << >>
        /\ warg' = << >>
        /\ calls' = calls - 1
        /\ IF r.err = "none"
           THEN /\ base' = SubSeq(base, 1, Top - 1)
                /\ out' = [SubSeq(out, 1, Top - 1) EXCEPT
                              ![Top - 1] = @ \o Region(base[Top] \o out[Top])]
                /\ joins' = joins + 1
           ELSE /\ base' = [base EXCEPT ![Top] = Content(r.w)]
                /\ out' = [out EXCEPT ![Top] = << >>]
                /\ UNCHANGED joins
        /\ UNCHANGED << forks, rvars >>

NewInit ==
    /\ chunks = << >>
    /\ buf = << >>
    /\ stack = << >>
    /\ wop = "new"
    /\ werr = "none"
    /\ wret = << >>
    /\ warg = << >>
    /\ base = << << >> >>
    /\ out = << << >> >>
    /\ forks = 0
    /\ joins = 0

vars == << wvars, rvars >>

\* A caller that uses every write method and finish() on a writer with no
\* open fork.
WriterInit == NewInit /\ ReaderIdle /\ calls = MaxCalls

WriterNext ==
    \/ CallUint32 \/ CallInt32 \/ CallSint32 \/ CallBool
    \/ CallInt64 \/ CallUint64 \/ CallSint64 \/ CallTag
    \/ CallRaw \/ CallBytes \/ CallString \/ CallFloat \/ CallDouble
    \/ CallFixed32 \/ CallSfixed32 \/ CallFixed64 \/ CallSfixed64
    \/ CallFinish

SpecWriter == WriterInit /\ [][WriterNext]_vars

\* A caller that forks, joins and finishes around one buffered write
\* (uint32), one chunk write (raw) and one write that is both (bytes), in
\* longer call sequences.
ForkInit == NewInit /\ ReaderIdle /\ calls = MaxOps

ForkNext ==
    \/ CallUint32 \/ CallRaw \/ CallBytes
    \/ CallFork \/ CallJoin \/ CallFinish

SpecFork == ForkInit /\ [][ForkNext]_vars

\* The number of calls of a caller that passes arguments outside the range.
MaxTries == 4

\* Numbers that are no unsigned 32-bit integer: 2^32, -1 and 0.5; numbers that
\* are no signed 32-bit integer: 2^31, -(2^31) - 1 and -1.5.
NoUInt32 == {JsPow2(32), JsInt(-1), JsHalf}
NoInt32 ==
    {JsPow2(31), [JsNegPow2(31) EXCEPT !.mag[1] = 1], [JsInt(-1) EXCEPT !.frac = TRUE]}

\* The arguments of the typed 32-bit writes: the largest unsigned and the
\* smallest signed 32-bit integer, and the numbers outside the range.
Try_unsigned == {JsOnes(32)} \cup NoUInt32
Try_signed == {JsNegPow2(31)} \cup NoInt32

\* A call of a caller that stops at the first call that fails.
Try(name, arg, r, alone) == werr = "none" /\ Write(name, arg, r, alone)

TryUint32 == \E v \in Try_unsigned : Try("uint32", v, uint32(This, v), Emits(uint32(NewWriter, v)))
TryFixed32 == \E v \in Try_unsigned : Try("fixed32", v, fixed32(This, v), Emits(fixed32(NewWriter, v)))
TryInt32 == \E v \in Try_signed : Try("int32", v, int32(This, v), Emits(int32(NewWriter, v)))
TrySint32 == \E v \in Try_signed : Try("sint32", v, sint32(This, v), Emits(sint32(NewWriter, v)))
TrySfixed32 == \E v \in Try_signed : Try("sfixed32", v, sfixed32(This, v), Emits(sfixed32(NewWriter, v)))
TryRaw == Try("raw", << 7 >>, raw(This, << 7 >>), << 7 >>)
TryFork == werr = "none" /\ CallFork

RangeInit == NewInit /\ ReaderIdle /\ calls = MaxTries

RangeNext ==
    \/ TryUint32 \/ TryFixed32 \/ TryInt32 \/ TrySint32 \/ TrySfixed32
    \/ TryRaw \/ TryFork

SpecRange == RangeInit /\ [][RangeNext]_vars

\* The number of calls of a caller that writes varints.
MaxVarints == 2

\* Unsigned 32-bit integers around each length of the varint, and tags whose
\* field numbers go up to the largest one, 2^29 - 1.
Var_uint32 ==
    {JsInt(0), JsInt(1), JsInt(127), JsInt(128), JsInt(300), JsInt(16383), JsInt(16384),
     JsOnes(21), JsPow2(21), JsOnes(28), JsPow2(28), JsPow2(31), JsOnes(32)}
Var_tag ==
    {<< 1, 0 >>, << 1, 2 >>, << 15, 5 >>, << 16, 0 >>, << 2047, 1 >>, << 2048, 2 >>,
     << 268435456, 0 >>, << 536870911, 5 >>}

VarUint32 == \E v \in Var_uint32 : Write("uint32", v, uint32(This, v), Emits(uint32(NewWriter, v)))
VarTag == \E a \in Var_tag : Write("tag", a, tag(This, a[1], a[2]), Emits(tag(NewWriter, a[1], a[2])))

VarintInit == NewInit /\ ReaderIdle /\ calls = MaxVarints

VarintNext == VarUint32 \/ VarTag

SpecVarint == VarintInit /\ [][VarintNext]_vars

(***************************************************************************)
(* The byte cursor (IBinaryReader).  The reader's buffer is b, its len is  *)
(* Len(b) and pos counts from 0.  Each primitive yields the value read and *)
(* the position after it, or the error raised.                             *)
(***************************************************************************)
Res(val, p) == [err |-> "none", val |-> val, pos |-> p]
Bad(e, p) == [err |-> e, val |-> << >>, pos |-> p]

RECURSIVE Trim(_)
\* A word without its high-order zero bits.
Trim(b) == IF b = << >> \/ b[Len(b)] = 1 THEN b ELSE Trim(SubSeq(b, 1, Len(b) - 1))

\* The number an unsigned word holds, and the number a signed word holds.
UNum(b) == [neg |-> FALSE, mag |-> Trim(b), frac |-> FALSE]
SNum(b) ==
    IF b[Len(b)] = 1
    THEN [neg |-> TRUE, mag |-> Trim(BvInc(BvNot(b))), frac |-> FALSE]
    ELSE UNum(b)

\* A length as an integer; a length no buffer of the model can hold is 2^30 - 1.
LenInt(n) == IF MagBelow(n, 24) THEN BvVal(n.mag) ELSE 1073741823

RECURSIVE VarintBits(_, _, _)
\* read_varint: the 7-bit groups of up to ten bytes, least significant first.
\* n counts the bytes read before this one.
VarintBits(b, p, n) ==
    IF p >= Len(b) THEN Bad("MalformedVarint", p)
    ELSE LET byte == b[p + 1]
             grp == Pad(MinBits(byte % 128), 7)
             Before(rest) == IF rest.err # "none" THEN rest
                             ELSE Res(grp \o rest.val, rest.pos)
         IN  IF byte < 128 THEN Res(grp, p + 1)
             ELSE IF n = 9 THEN Bad("MalformedVarint", p + 1)
             ELSE Before(VarintBits(b, p + 1, n + 1))

\* The (lo, hi) halves of the varint at p.
reader_varint64(b, p) ==
    LET Halves(v) ==
            IF v.err # "none" THEN v
            ELSE Res([lo |-> SubSeq(Pad(v.val, 64), 1, 32),
                      hi |-> SubSeq(Pad(v.val, 64), 33, 64)], v.pos)
    IN  Halves(VarintBits(b, p, 0))

reader_uint32(b, p) ==
    LET Of(v) == IF v.err # "none" THEN v ELSE Res(UNum(v.val.lo), v.pos)
    IN  Of(reader_varint64(b, p))

reader_int32(b, p) ==
    LET Of(v) == IF v.err # "none" THEN v ELSE Res(SNum(v.val.lo), v.pos)
    IN  Of(reader_varint64(b, p))

\* (zze >>> 1) ^ -(zze & 1)
reader_sint32(b, p) ==
    LET Of(v) ==
            IF v.err # "none" THEN v
            ELSE Res(SNum(BvXor(BvShr(v.val.lo, 1), [i \in 1..32 |-> v.val.lo[1]])), v.pos)
    IN  Of(reader_varint64(b, p))

reader_bool(b, p) ==
    LET Of(v) ==
            IF v.err # "none" THEN v
            ELSE Res(\E i \in 1..32 : v.val.lo[i] = 1 \/ v.val.hi[i] = 1, v.pos)
    IN  Of(reader_varint64(b, p))

reader_int64(b, p) ==
    LET Of(v) == IF v.err # "none" THEN v ELSE Res(SNum(v.val.lo \o v.val.hi), v.pos)
    IN  Of(reader_varint64(b, p))

reader_uint64(b, p) ==
    LET Of(v) == IF v.err # "none" THEN v ELSE Res(UNum(v.val.lo \o v.val.hi), v.pos)
    IN  Of(reader_varint64(b, p))

reader_sint64(b, p) ==
    LET ZigZag(w) == SNum(BvXor(BvShr(w, 1), [i \in 1..64 |-> w[1]]))
        Of(v) == IF v.err # "none" THEN v ELSE Res(ZigZag(v.val.lo \o v.val.hi), v.pos)
    IN  Of(reader_varint64(b, p))

RECURSIVE BytesBits(_)
\* The word a little-endian byte sequence holds.
BytesBits(bs) ==
    IF bs = << >> THEN << >> ELSE Pad(MinBits(Head(bs)), 8) \o BytesBits(Tail(bs))

\* The n bytes at p.
reader_fixed(b, p, n) ==
    IF p + n > Len(b) THEN Bad("TruncatedInput", p)
    ELSE Res(SubSeq(b, p + 1, p + n), p + n)

reader_fixed32(b, p) ==
    LET Of(v) == IF v.err # "none" THEN v ELSE Res(UNum(BytesBits(v.val)), v.pos)
    IN  Of(reader_fixed(b, p, 4))

reader_sfixed32(b, p) ==
    LET Of(v) == IF v.err # "none" THEN v ELSE Res(SNum(BytesBits(v.val)), v.pos)
    IN  Of(reader_fixed(b, p, 4))

reader_fixed64(b, p) ==
    LET Of(v) == IF v.err # "none" THEN v ELSE Res(UNum(BytesBits(v.val)), v.pos)
    IN  Of(reader_fixed(b, p, 8))

reader_sfixed64(b, p) ==
    LET Of(v) == IF v.err # "none" THEN v ELSE Res(SNum(BytesBits(v.val)), v.pos)
    IN  Of(reader_fixed(b, p, 8))

\* The IEEE-754 fields of a word with e exponent bits and m mantissa bits.
FloatOf(w, e, m) ==
    [sign |-> w[m + e + 1], exp |-> BvVal(SubSeq(w, m + 1, m + e)),
     digits |-> [i \in 1..m |-> w[m - i + 1]]]

reader_float(b, p) ==
    LET Of(v) == IF v.err # "none" THEN v ELSE Res(FloatOf(BytesBits(v.val), 8, 23), v.pos)
    IN  Of(reader_fixed(b, p, 4))

reader_double(b, p) ==
    LET Of(v) == IF v.err # "none" THEN v ELSE Res(FloatOf(BytesBits(v.val), 11, 52), v.pos)
    IN  Of(reader_fixed(b, p, 8))

reader_bytes(b, p) ==
    LET Of(n) == IF n.err # "none" THEN n ELSE reader_fixed(b, n.pos, LenInt(n.val))
    IN  Of(reader_uint32(b, p))

RECURSIVE Utf8Decode(_)
\* TextDecoder.decode for code points below 0x800.
Utf8Decode(bs) ==
    IF bs = << >> THEN << >>
    ELSE IF Head(bs) < 128 \/ Len(bs) = 1 THEN << Head(bs) >> \o Utf8Decode(Tail(bs))
    ELSE << (Head(bs) % 32) * 64 + (bs[2] % 64) >> \o Utf8Decode(Tail(Tail(bs)))

reader_string(b, p) ==
    LET Of(v) == IF v.err # "none" THEN v ELSE Res(Utf8Decode(v.val), v.pos)
    IN  Of(reader_bytes(b, p))

\* WireType
Varint == 0
Bit64 == 1
LengthDelimited == 2
Bit32 == 5

\* tag(): [fieldNo, wireType] = [tag >>> 3, tag & 7]
reader_tag(b, p) ==
    LET Of(v) ==
            IF v.err # "none" THEN v
            ELSE IF ~MagBelow(UNum(v.val.lo), 24) THEN Bad("IllegalTag", v.pos)
            ELSE Res([fieldNo |-> BvVal(BvShr(v.val.lo, 3)),
                      wireType |-> BvVal(SubSeq(v.val.lo, 1, 3))], v.pos)
    IN  Of(reader_varint64(b, p))

\* skip(wireType): the bytes of the value skipped.
reader_skip(b, p, wireType) ==
    LET Skipped(after) ==
            IF after.err # "none" THEN [after EXCEPT !.val = << >>]
            ELSE Res(SubSeq(b, p + 1, after.pos), after.pos)
    IN  Skipped(CASE wireType = Varint -> VarintBits(b, p, 0)
                  [] wireType = Bit64 -> reader_fixed(b, p, 8)
                  [] wireType = Bit32 -> reader_fixed(b, p, 4)
                  [] wireType = LengthDelimited -> reader_bytes(b, p)
                  [] OTHER -> Bad("InvalidWireType", p))

(***************************************************************************)
(* Reflection information: the message types the reader is built for.      *)
(***************************************************************************)
\* RepeatType
NO == 0
PACKED == 1
UNPACKED == 2

NoV == [kind |-> "none", T |-> "none", L |-> "undefined"]

\* A FieldInfo.  T is the ScalarType of a scalar field and the type name of a
\* message field; K and V describe a map field.
Field(no, localName, kind, repeat, oneof, T, K, V) ==
    [no |-> no, name |-> localName, localName |-> localName, kind |-> kind,
     repeat |-> repeat, oneof |-> oneof, T |-> T, L |-> "undefined", K |-> K, V |-> V]

\* MessageInfo.fields of the two message types of the model.
Fields(typeName) ==
    IF typeName = "spec.M"
    THEN { Field(1, "a", "scalar", NO, "none", "INT32", "none", NoV),
           Field(2, "x", "scalar", NO, "choice", "INT32", "none", NoV),
           Field(3, "y", "scalar", NO, "choice", "STRING", "none", NoV),
           Field(4, "r", "scalar", PACKED, "none", "INT32", "none", NoV),
           Field(5, "sub", "message", NO, "none", "spec.N", "none", NoV),
           Field(6, "m", "map", NO, "none", "none", "INT32",
                 [kind |-> "scalar", T |-> "INT32", L |-> "undefined"]),
           Field(7, "rs", "message", UNPACKED, "none", "spec.N", "none", NoV),
           Field(8, "e", "enum", UNPACKED, "none", "none", "none", NoV),
           Field(9, "tags", "scalar", UNPACKED, "none", "STRING", "none", NoV),
           Field(10, "bm", "map", NO, "none", "none", "BOOL",
                 [kind |-> "enum", T |-> "none", L |-> "undefined"]),
           Field(11, "lm", "map", NO, "none", "none", "INT64",
                 [kind |-> "message", T |-> "spec.N", L |-> "undefined"]) }
    ELSE { Field(1, "v", "scalar", NO, "none", "INT32", "none", NoV),
           Field(2, "items", "scalar", PACKED, "none", "INT32", "none", NoV),
           Field(3, "nm", "map", NO, "none", "none", "INT32",
                 [kind |-> "scalar", T |-> "INT32", L |-> "undefined"]) }

\* reflectionLongConvert(long, type): the 64-bit value in the representation
\* the LongType asks for (a decimal string unless it says otherwise).
reflectionLongConvert(long, type) ==
    [long |-> long, as |-> IF type \in {"BIGINT", "NUMBER"} THEN type ELSE "STRING"]

\* reflectionScalarDefault(type, longType)
reflectionScalarDefault(type, longType) ==
    CASE type = "BOOL" -> FALSE
      [] type \in {"STRING", "BYTES"} -> << >>
      [] type \in {"DOUBLE", "FLOAT"} -> [sign |-> 0, exp |-> 0, digits |-> << >>]
      [] type \in {"INT64", "UINT64", "FIXED64", "SFIXED64", "SINT64"} ->
            reflectionLongConvert(JsInt(0), longType)
      [] OTHER -> JsInt(0)

\* MessageType.create(): scalars at their defaults, repeated fields and maps
\* empty, every oneof group unselected, singular message fields absent.
Create(typeName) ==
    LET fs == Fields(typeName)
        plain == {f \in fs : f.oneof = "none" /\ ~(f.kind = "message" /\ f.repeat = NO)}
        names == {f.localName : f \in plain} \cup {f.oneof : f \in {g \in fs : g.oneof # "none"}}
    IN  [n \in names |->
            IF \E f \in plain : f.localName = n
            THEN LET f == CHOOSE g \in plain : g.localName = n
                 IN  IF f.kind = "map" \/ f.repeat # NO THEN << >>
                     ELSE IF f.kind = "enum" THEN JsInt(0)
                     ELSE reflectionScalarDefault(f.T, f.L)
            ELSE [oneofKind |-> "undefined"]]

\* object[key] = value
Put(object, key, value) ==
    IF key \in DOMAIN object THEN [object EXCEPT ![key] = value]
    ELSE (key :> value) @@ object

(***************************************************************************)
(* ReflectionBinaryReader.  rd = [buf, opt] is the cursor's buffer and      *)
(* options.readUnknownField; st = [pos, msg, err, info, calls] is           *)
(* reader.pos, the target message, the error raised ("none" while none     *)
(* is), what the error names, and the unknown-field handler calls made;    *)
(* st.n counts the loop iterations started (tag loop, packed run, map      *)
(* entry).                                                                 *)
(***************************************************************************)
Throw(st, e, info) == [st EXCEPT !.err = e, !.info = info]

scalar(b, p, type, longType) ==
    LET Long(r) == IF r.err # "none" THEN r
                   ELSE Res(reflectionLongConvert(r.val, longType), r.pos)
    IN  CASE type = "INT32" -> reader_int32(b, p)
          [] type = "STRING" -> reader_string(b, p)
          [] type = "BOOL" -> reader_bool(b, p)
          [] type = "DOUBLE" -> reader_double(b, p)
          [] type = "FLOAT" -> reader_float(b, p)
          [] type = "INT64" -> Long(reader_int64(b, p))
          [] type = "UINT64" -> Long(reader_uint64(b, p))
          [] type = "FIXED64" -> Long(reader_fixed64(b, p))
          [] type = "FIXED32" -> reader_fixed32(b, p)
          [] type = "BYTES" -> reader_bytes(b, p)
          [] type = "UINT32" -> reader_uint32(b, p)
          [] type = "SFIXED32" -> reader_sfixed32(b, p)
          [] type = "SFIXED64" -> Long(reader_sfixed64(b, p))
          [] type = "SINT32" -> reader_sint32(b, p)
          [] type = "SINT64" -> Long(reader_sint64(b, p))

RECURSIVE PackedLoop(_, _, _, _, _, _)
\* PackedLoop, but each value is put in front of the array.
PackedLoop_prepends(b, p, e, T, L, arr) ==
    LET Pushed(v) ==
            IF v.err # "none" THEN [err |-> v.err, pos |-> v.pos, arr |-> arr]
            ELSE PackedLoop(b, v.pos, e, T, L, << v.val >> \o arr)
    IN  IF p >= e THEN [err |-> "none", pos |-> p, arr |-> arr]
        ELSE Pushed(scalar(b, p, T, L))

\* while (reader.pos < e) arr.push(this.scalar(reader, T, L))
PackedLoop(b, p, e, T, L, arr) ==
    LET Pushed(v) ==
            IF v.err # "none" THEN [err |-> v.err, pos |-> v.pos, arr |-> arr]
            ELSE PackedLoop(b, v.pos, e, T, L, Append(arr, v.val))
    IN  IF p >= e THEN [err |-> "none", pos |-> p, arr |-> arr]
        ELSE Pushed(scalar(b, p, T, L))

RECURSIVE ReadLoop(_, _, _, _)
RECURSIVE ReadField(_, _, _)
RECURSIVE MapEntryLoop(_, _, _, _, _, _)

\* MessageType.internalBinaryRead(reader, length, options, target): read into
\* the target given (has) or into a created message.
internalBinaryRead(rd, typeName, st, length, has, target) ==
    ReadLoop(rd, typeName,
             [st EXCEPT !.msg = IF has THEN target ELSE Create(typeName)],
             st.pos + length)

\* UnknownField, but only the default recorder is ever invoked.
UnknownField_defaultOnly(rd, typeName, st, fieldNo, wireType) ==
    LET u == rd.opt
        Handled(d) ==
            IF d.err # "none" THEN Throw([st EXCEPT !.pos = d.pos], d.err, << >>)
            ELSE [st EXCEPT
                     !.pos = d.pos,
                     !.calls = IF u = "true"
                               THEN Append(@, [handler |-> "onRead",
                                               typeName |-> typeName, target |-> st.msg,
                                               fieldNo |-> fieldNo,
                                               wireType |-> wireType, data |-> d.val])
                               ELSE @]
    IN  IF u = "throw"
        THEN Throw(st, "UnknownField", << typeName, fieldNo, wireType >>)
        ELSE Handled(reader_skip(rd.buf, st.pos, wireType))

\* UnknownField, but the value is skipped before "throw" is looked at.
UnknownField_skipsFirst(rd, typeName, st, fieldNo, wireType) ==
    LET u == rd.opt
        Handled(d) ==
            IF d.err # "none" THEN Throw([st EXCEPT !.pos = d.pos], d.err, << >>)
            ELSE IF u = "throw"
            THEN Throw([st EXCEPT !.pos = d.pos], "UnknownField", << typeName, fieldNo, wireType >>)
            ELSE [st EXCEPT
                     !.pos = d.pos,
                     !.calls = IF u # "false"
                               THEN Append(@, [handler |-> IF u = "true" THEN "onRead" ELSE u,
                                               typeName |-> typeName, target |-> st.msg,
                                               fieldNo |-> fieldNo,
                                               wireType |-> wireType, data |-> d.val])
                               ELSE @]
    IN  Handled(reader_skip(rd.buf, st.pos, wireType))

\* UnknownField, but the handler is invoked whatever readUnknownField is.
UnknownField_recordsAlways(rd, typeName, st, fieldNo, wireType) ==
    LET u == rd.opt
        Handled(d) ==
            IF d.err # "none" THEN Throw([st EXCEPT !.pos = d.pos], d.err, << >>)
            ELSE [st EXCEPT
                     !.pos = d.pos,
                     !.calls = Append(@, [handler |-> IF u \in {"true", "false"} THEN "onRead" ELSE u,
                                          typeName |-> typeName, target |-> st.msg,
                                          fieldNo |-> fieldNo,
                                          wireType |-> wireType, data |-> d.val])]
    IN  IF u = "throw"
        THEN Throw(st, "UnknownField", << typeName, fieldNo, wireType >>)
        ELSE Handled(reader_skip(rd.buf, st.pos, wireType))

\* The unknown field branch of read(); st.pos is past the tag.
UnknownField(rd, typeName, st, fieldNo, wireType) ==
    LET u == rd.opt
        Handled(d) ==
            IF d.err # "none" THEN Throw([st EXCEPT !.pos = d.pos], d.err, << >>)
            ELSE [st EXCEPT
                     !.pos = d.pos,
                     !.calls = IF u # "false"
                               THEN Append(@, [handler |-> IF u = "true" THEN "onRead" ELSE u,
                                               typeName |-> typeName, target |-> st.msg,
                                               fieldNo |-> fieldNo,
                                               wireType |-> wireType, data |-> d.val])
                               ELSE @]
    IN  IF u = "throw"
        THEN Throw(st, "UnknownField", << typeName, fieldNo, wireType >>)
        ELSE Handled(reader_skip(rd.buf, st.pos, wireType))

\* MapEntryLoop, but a field that is neither the key nor the value is skipped.
MapEntryLoop_skipsForeign(rd, typeName, field, st, end, e) ==
    LET Raise(r) == [st |-> Throw([st EXCEPT !.pos = r.pos, !.n = @ + 1], r.err, << >>), e |-> e]
        Key(k) ==
            IF k.err # "none" THEN Raise(k)
            ELSE MapEntryLoop(rd, typeName, field, [st EXCEPT !.pos = k.pos, !.n = @ + 1], end,
                     [e EXCEPT !.hasKey = TRUE,
                               !.key = IF field.K = "BOOL"
                                       THEN (IF k.val THEN "true" ELSE "false")
                                       ELSE k.val])
        Val(v) ==
            IF v.err # "none" THEN Raise(v)
            ELSE MapEntryLoop(rd, typeName, field, [st EXCEPT !.pos = v.pos, !.n = @ + 1], end,
                     [e EXCEPT !.hasVal = TRUE, !.val = v.val])
        Read(m) ==
            IF m.err # "none" THEN [st |-> [m EXCEPT !.msg = st.msg], e |-> e]
            ELSE MapEntryLoop(rd, typeName, field, [m EXCEPT !.msg = st.msg], end,
                     [e EXCEPT !.hasVal = TRUE, !.val = m.msg])
        MessageVal(n) ==
            IF n.err # "none" THEN Raise(n)
            ELSE Read(internalBinaryRead(rd, field.V.T, [st EXCEPT !.pos = n.pos, !.n = @ + 1],
                                         LenInt(n.val), FALSE, << >>))
        Skipped(d) ==
            IF d.err # "none" THEN Raise(d)
            ELSE MapEntryLoop(rd, typeName, field, [st EXCEPT !.pos = d.pos, !.n = @ + 1], end, e)
        Tagged(t) ==
            IF t.err # "none" THEN Raise(t)
            ELSE CASE t.val.fieldNo = 1 ->
                        Key(IF field.K = "BOOL" THEN reader_bool(rd.buf, t.pos)
                            ELSE scalar(rd.buf, t.pos, field.K, "STRING"))
                   [] t.val.fieldNo = 2 ->
                        (CASE field.V.kind = "scalar" ->
                                 Val(scalar(rd.buf, t.pos, field.V.T, field.V.L))
                           [] field.V.kind = "enum" -> Val(reader_int32(rd.buf, t.pos))
                           [] field.V.kind = "message" -> MessageVal(reader_uint32(rd.buf, t.pos)))
                   [] OTHER -> Skipped(reader_skip(rd.buf, t.pos, t.val.wireType))
    IN  IF st.pos >= end THEN [st |-> st, e |-> e]
        ELSE Tagged(reader_tag(rd.buf, st.pos))

\* mapEntry, but a missing value becomes the number 0 whatever the value type
\* of the map is.
mapEntry_zeroValue(rd, typeName, field, st) ==
    LET keyRaw == reflectionScalarDefault(field.K, "STRING")
        Defaulted(l) ==
            [st |-> l.st,
             key |-> IF l.e.hasKey THEN l.e.key
                     ELSE IF field.K = "BOOL" THEN (IF keyRaw THEN "true" ELSE "false")
                     ELSE keyRaw,
             val |-> IF l.e.hasVal THEN l.e.val ELSE JsInt(0)]
        Within(length) ==
            IF length.err # "none"
            THEN [st |-> Throw([st EXCEPT !.pos = length.pos], length.err, << >>),
                  key |-> << >>, val |-> << >>]
            ELSE Defaulted(MapEntryLoop(rd, typeName, field, [st EXCEPT !.pos = length.pos],
                                        length.pos + LenInt(length.val),
                                        [hasKey |-> FALSE, key |-> << >>,
                                         hasVal |-> FALSE, val |-> << >>]))
    IN  Within(reader_uint32(rd.buf, st.pos))

\* mapEntry(field, reader, options): the entry's key and value.
mapEntry(rd, typeName, field, st) ==
    LET keyRaw == reflectionScalarDefault(field.K, "STRING")
        Defaulted(l) ==
            [st |-> l.st,
             key |-> IF l.e.hasKey THEN l.e.key
                     ELSE IF field.K = "BOOL" THEN (IF keyRaw THEN "true" ELSE "false")
                     ELSE keyRaw,
             val |-> IF l.e.hasVal THEN l.e.val
                     ELSE CASE field.V.kind = "scalar" -> reflectionScalarDefault(field.V.T, field.V.L)
                            [] field.V.kind = "enum" -> JsInt(0)
                            [] OTHER -> Create(field.V.T)]
        Within(length) ==
            IF length.err # "none"
            THEN [st |-> Throw([st EXCEPT !.pos = length.pos], length.err, << >>),
                  key |-> << >>, val |-> << >>]
            ELSE Defaulted(MapEntryLoop(rd, typeName, field, [st EXCEPT !.pos = length.pos],
                                        length.pos + LenInt(length.val),
                                        [hasKey |-> FALSE, key |-> << >>,
                                         hasVal |-> FALSE, val |-> << >>]))
    IN  Within(reader_uint32(rd.buf, st.pos))

MapEntryLoop(rd, typeName, field, st, end, e) ==
    LET Raise(r) == [st |-> Throw([st EXCEPT !.pos = r.pos, !.n = @ + 1], r.err, << >>), e |-> e]
        Key(k) ==
            IF k.err # "none" THEN Raise(k)
            ELSE MapEntryLoop(rd, typeName, field, [st EXCEPT !.pos = k.pos, !.n = @ + 1], end,
                     [e EXCEPT !.hasKey = TRUE,
                               !.key = IF field.K = "BOOL"
                                       THEN (IF k.val THEN "true" ELSE "false")
                                       ELSE k.val])
        Val(v) ==
            IF v.err # "none" THEN Raise(v)
            ELSE MapEntryLoop(rd, typeName, field, [st EXCEPT !.pos = v.pos, !.n = @ + 1], end,
                     [e EXCEPT !.hasVal = TRUE, !.val = v.val])
        Read(m) ==
            IF m.err # "none" THEN [st |-> [m EXCEPT !.msg = st.msg], e |-> e]
            ELSE MapEntryLoop(rd, typeName, field, [m EXCEPT !.msg = st.msg], end,
                     [e EXCEPT !.hasVal = TRUE, !.val = m.msg])
        MessageVal(n) ==
            IF n.err # "none" THEN Raise(n)
            ELSE Read(internalBinaryRead(rd, field.V.T, [st EXCEPT !.pos = n.pos, !.n = @ + 1],
                                         LenInt(n.val), FALSE, << >>))
        Tagged(t) ==
            IF t.err # "none" THEN Raise(t)
            ELSE CASE t.val.fieldNo = 1 ->
                        Key(IF field.K = "BOOL" THEN reader_bool(rd.buf, t.pos)
                            ELSE scalar(rd.buf, t.pos, field.K, "STRING"))
                   [] t.val.fieldNo = 2 ->
                        (CASE field.V.kind = "scalar" ->
                                 Val(scalar(rd.buf, t.pos, field.V.T, field.V.L))
                           [] field.V.kind = "enum" -> Val(reader_int32(rd.buf, t.pos))
                           [] field.V.kind = "message" -> MessageVal(reader_uint32(rd.buf, t.pos)))
                   [] OTHER ->
                        [st |-> Throw([st EXCEPT !.pos = t.pos, !.n = @ + 1], "MalformedMapEntry",
                                      << typeName, field.name, t.val.fieldNo, t.val.wireType >>),
                         e |-> e]
    IN  IF st.pos >= end THEN [st |-> st, e |-> e]
        ELSE Tagged(reader_tag(rd.buf, st.pos))

\* OneofGroup, but the record of the group is kept when the member changes.
OneofGroup_keepsSiblings(msg, field) ==
    [msg[field.oneof] EXCEPT !.oneofKind = field.localName]

\* if field is member of oneof ADT, use ADT as target: the group record read()
\* writes into.  If other oneof member selected, set new ADT.
OneofGroup(msg, field) ==
    IF msg[field.oneof].oneofKind # field.localName
    THEN [oneofKind |-> field.localName]
    ELSE msg[field.oneof]

\* The message once read() has chosen the target object for the field.
Routed(msg, field) ==
    IF field.oneof # "none" THEN [msg EXCEPT ![field.oneof] = OneofGroup(msg, field)] ELSE msg

\* target: the message, or the group record of the field's oneof
Target(msg, field) == IF field.oneof # "none" THEN msg[field.oneof] ELSE msg

\* The message once target[localName] = value.
Assign(msg, field, value) ==
    IF field.oneof # "none"
    THEN [msg EXCEPT ![field.oneof] = Put(@, field.localName, value)]
    ELSE Put(msg, field.localName, value)

\* ScalarField, but a packed run is read only where the descriptor says PACKED.
ScalarField_byDescriptor(rd, st, field, wireType) ==
    LET repeated == field.repeat # NO
        arr == Target(st.msg, field)[field.localName]
        T == IF field.kind = "enum" THEN "INT32" ELSE field.T
        L == IF field.kind = "scalar" THEN field.L ELSE "undefined"
        \* an iteration pushes one value; the one that fails pushes none
        Packed(l) ==
            [st EXCEPT !.pos = l.pos, !.err = l.err, !.msg = Assign(st.msg, field, l.arr),
                       !.n = @ + Len(l.arr) - Len(arr) + (IF l.err # "none" THEN 1 ELSE 0)]
        PackedRun(n) ==
            IF n.err # "none" THEN Throw([st EXCEPT !.pos = n.pos], n.err, << >>)
            ELSE Packed(PackedLoop(rd.buf, n.pos, LenInt(n.val) + n.pos, T, L, arr))
        One(v) ==
            IF v.err # "none" THEN Throw([st EXCEPT !.pos = v.pos], v.err, << >>)
            ELSE [st EXCEPT !.pos = v.pos,
                            !.msg = IF repeated THEN Assign(st.msg, field, Append(arr, v.val))
                                    ELSE Assign(st.msg, field, v.val)]
    IN  IF field.repeat = PACKED /\ wireType = LengthDelimited /\ T # "STRING" /\ T # "BYTES"
        THEN PackedRun(reader_uint32(rd.buf, st.pos))
        ELSE One(scalar(rd.buf, st.pos, T, L))

\* case "scalar", case "enum"; st.pos is past the tag.  An error leaves the
\* message as the statements before it made it.
ScalarField(rd, st, field, wireType) ==
    LET repeated == field.repeat # NO
        arr == Target(st.msg, field)[field.localName]
        T == IF field.kind = "enum" THEN "INT32" ELSE field.T
        L == IF field.kind = "scalar" THEN field.L ELSE "undefined"
        \* an iteration pushes one value; the one that fails pushes none
        Packed(l) ==
            [st EXCEPT !.pos = l.pos, !.err = l.err, !.msg = Assign(st.msg, field, l.arr),
                       !.n = @ + Len(l.arr) - Len(arr) + (IF l.err # "none" THEN 1 ELSE 0)]
        PackedRun(n) ==
            IF n.err # "none" THEN Throw([st EXCEPT !.pos = n.pos], n.err, << >>)
            ELSE Packed(PackedLoop(rd.buf, n.pos, LenInt(n.val) + n.pos, T, L, arr))
        One(v) ==
            IF v.err # "none" THEN Throw([st EXCEPT !.pos = v.pos], v.err, << >>)
            ELSE [st EXCEPT !.pos = v.pos,
                            !.msg = IF repeated THEN Assign(st.msg, field, Append(arr, v.val))
                                    ELSE Assign(st.msg, field, v.val)]
    IN  IF repeated /\ wireType = LengthDelimited /\ T # "STRING" /\ T # "BYTES"
        THEN PackedRun(reader_uint32(rd.buf, st.pos))
        ELSE One(scalar(rd.buf, st.pos, T, L))

\* MessageField, but the nested reader is never given the message the target
\* holds.
MessageField_fresh(rd, st, field) ==
    LET repeated == field.repeat # NO
        target == Target(st.msg, field)
        Nested(m) ==
            IF m.err # "none" THEN [m EXCEPT !.msg = st.msg]
            ELSE [m EXCEPT !.msg = IF repeated
                                   THEN Assign(st.msg, field, Append(target[field.localName], m.msg))
                                   ELSE Assign(st.msg, field, m.msg)]
        Message(n) ==
            IF n.err # "none" THEN Throw([st EXCEPT !.pos = n.pos], n.err, << >>)
            ELSE Nested(internalBinaryRead(rd, field.T, [st EXCEPT !.pos = n.pos], LenInt(n.val),
                                           FALSE, << >>))
    IN  Message(reader_uint32(rd.buf, st.pos))

\* MessageField, but an occurrence of a repeated field is read into the last
\* element of the array, if it has one.
MessageField_mergesLast(rd, st, field) ==
    LET repeated == field.repeat # NO
        target == Target(st.msg, field)
        arr == IF repeated THEN target[field.localName] ELSE << >>
        has == IF repeated THEN arr # << >> ELSE field.localName \in DOMAIN target
        Nested(m) ==
            IF m.err # "none"
            THEN [m EXCEPT !.msg = IF has /\ ~repeated THEN Assign(st.msg, field, m.msg) ELSE st.msg]
            ELSE [m EXCEPT !.msg = IF repeated
                                   THEN Assign(st.msg, field,
                                               IF has THEN [arr EXCEPT ![Len(arr)] = m.msg]
                                               ELSE Append(arr, m.msg))
                                   ELSE Assign(st.msg, field, m.msg)]
        Message(n) ==
            IF n.err # "none" THEN Throw([st EXCEPT !.pos = n.pos], n.err, << >>)
            ELSE Nested(internalBinaryRead(rd, field.T, [st EXCEPT !.pos = n.pos], LenInt(n.val),
                                           has,
                                           IF ~has THEN << >>
                                           ELSE IF repeated THEN arr[Len(arr)]
                                           ELSE target[field.localName]))
    IN  Message(reader_uint32(rd.buf, st.pos))

\* case "message": a repeated field gets a new message appended, a singular
\* one is read into the message the target holds, if it holds one.
MessageField(rd, st, field) ==
    LET repeated == field.repeat # NO
        target == Target(st.msg, field)
        has == ~repeated /\ field.localName \in DOMAIN target
        \* a failed nested read has mutated the message it was given in place
        Nested(m) ==
            IF m.err # "none"
            THEN [m EXCEPT !.msg = IF has THEN Assign(st.msg, field, m.msg) ELSE st.msg]
            ELSE [m EXCEPT !.msg = IF repeated
                                   THEN Assign(st.msg, field, Append(target[field.localName], m.msg))
                                   ELSE Assign(st.msg, field, m.msg)]
        Message(n) ==
            IF n.err # "none" THEN Throw([st EXCEPT !.pos = n.pos], n.err, << >>)
            ELSE Nested(internalBinaryRead(rd, field.T, [st EXCEPT !.pos = n.pos], LenInt(n.val),
                                           has, IF has THEN target[field.localName] ELSE << >>))
    IN  Message(reader_uint32(rd.buf, st.pos))

\* MapField, but an entry whose key the map holds is dropped.
MapField_keepsFirst(rd, typeName, st, field) ==
    LET map == Target(st.msg, field)[field.localName]
        Entered(me) ==
            IF me.st.err # "none" THEN me.st
            ELSE [me.st EXCEPT !.msg = IF me.key \in DOMAIN map THEN st.msg
                                       ELSE Assign(st.msg, field, Put(map, me.key, me.val))]
    IN  Entered(mapEntry(rd, typeName, field, st))

\* case "map": (target[localName])[mapKey] = mapVal
MapField(rd, typeName, st, field) ==
    LET map == Target(st.msg, field)[field.localName]
        Entered(me) ==
            IF me.st.err # "none" THEN me.st
            ELSE [me.st EXCEPT !.msg = Assign(st.msg, field, Put(map, me.key, me.val))]
    IN  Entered(mapEntry(rd, typeName, field, st))

\* The branch of read() for a tag with a field descriptor; st.pos is past the
\* tag.
KnownField(rd, typeName, st, field, wireType) ==
    LET at == [st EXCEPT !.msg = Routed(st.msg, field)]
    IN  CASE field.kind \in {"scalar", "enum"} -> ScalarField(rd, at, field, wireType)
          [] field.kind = "message" -> MessageField(rd, at, field)
          [] field.kind = "map" -> MapField(rd, typeName, at, field)

\* this.fieldNoToField.get(fieldNo)
FieldOf(typeName, fieldNo) ==
    LET fs == {f \in Fields(typeName) : f.no = fieldNo}
    IN  IF fs = {} THEN NoV ELSE CHOOSE f \in fs : TRUE

\* One iteration of the loop of read(): read the tag and find the field.
ReadField(rd, typeName, st) ==
    LET Found(field, t) ==
            IF field = NoV
            THEN UnknownField(rd, typeName, [st EXCEPT !.pos = t.pos, !.n = @ + 1], t.val.fieldNo, t.val.wireType)
            ELSE KnownField(rd, typeName, [st EXCEPT !.pos = t.pos, !.n = @ + 1], field, t.val.wireType)
        Tagged(t) ==
            IF t.err # "none" THEN Throw([st EXCEPT !.pos = t.pos, !.n = @ + 1], t.err, << >>)
            ELSE Found(FieldOf(typeName, t.val.fieldNo), t)
    IN  Tagged(reader_tag(rd.buf, st.pos))

\* while (reader.pos < end) ...
ReadLoop(rd, typeName, st, end) ==
    IF st.err # "none" \/ st.pos >= end THEN st
    ELSE ReadLoop(rd, typeName, ReadField(rd, typeName, st), end)

(***************************************************************************)
(* The wire streams the reader is run on.  A wire field is                 *)
(* << field number, form, payload >>; it is encoded with the BinaryWriter. *)
(***************************************************************************)
\* The number of fields of a stream, at the top level.
MaxItems == 3

RECURSIVE EncodeItems(_)
RECURSIVE EncodeInts(_)

\* The values of a packed run, back to back.
EncodeInts(vs) ==
    IF vs = << >> THEN << >>
    ELSE Emits(int32(NewWriter, JsInt(Head(vs)))) \o EncodeInts(Tail(vs))

\* A length-delimited value whose length prefix is one less than its length.
Short(value) == Emits(uint32(NewWriter, JsInt(Len(value) - 1))) \o value

\* The bytes of a wire field; the forms "packed-" and "msg-" are a packed run
\* and a nested message or map entry with such a length prefix.
EncodeItem(it) ==
    LET no == it[1]
        form == it[2]
        payload == it[3]
        T(wireType) == Emits(tag(NewWriter, no, wireType))
    IN  CASE form = "int" -> T(Varint) \o Emits(int32(NewWriter, JsInt(payload[1])))
          [] form = "str" -> T(LengthDelimited) \o Emits(string(NewWriter, payload))
          [] form = "packed" -> T(LengthDelimited) \o Emits(bytes(NewWriter, EncodeInts(payload)))
          [] form = "msg" -> T(LengthDelimited) \o Emits(bytes(NewWriter, EncodeItems(payload)))
          [] form = "packed-" -> T(LengthDelimited) \o Short(EncodeInts(payload))
          [] form = "msg-" -> T(LengthDelimited) \o Short(EncodeItems(payload))
          [] form = "fix32" -> T(Bit32) \o payload
          [] form = "fix64" -> T(Bit64) \o payload

EncodeItems(its) ==
    IF its = << >> THEN << >> ELSE EncodeItem(Head(its)) \o EncodeItems(Tail(its))

\* The sequences of at most n elements of S.
RECURSIVE SeqsUpTo(_, _)
SeqsUpTo(S, n) ==
    IF n = 0 THEN {<< >>}
    ELSE LET shorter == SeqsUpTo(S, n - 1)
         IN  shorter \cup {Append(q, x) : q \in shorter, x \in S}

\* A map entry with the given fields.
Entry(no, fields) == << no, "msg", fields >>
KV(k, v) == << << 1, "int", << k >> >>, << 2, "int", << v >> >> >>

\* Streams about the oneof group "choice" (fields 2 and 3) and a plain field.
OneofItems ==
    { << 1, "int", << 1 >> >>, << 2, "int", << 1 >> >>, << 2, "int", << 2 >> >>,
      << 3, "str", << 97 >> >> }

\* Streams about repeated scalar and enum fields, packed and unpacked.
RepeatedItems ==
    { << 4, "int", << 1 >> >>, << 4, "int", << -1 >> >>, << 4, "packed", << 2, 300 >> >>,
      << 8, "int", << 1 >> >>, << 8, "packed", << 2, 1 >> >> }

\* Streams about message fields: singular (5) and repeated (7).
MessageItems ==
    { << 5, "msg", << << 1, "int", << 1 >> >> >> >>,
      << 5, "msg", << << 1, "int", << 2 >> >>, << 2, "int", << 5 >> >> >> >>,
      << 5, "msg", << << 2, "packed", << 6 >> >>, Entry(3, KV(1, 1)) >> >>,
      << 5, "msg", << Entry(3, KV(1, 2)), Entry(3, KV(2, 1)) >> >>,
      << 7, "msg", << << 1, "int", << 1 >> >> >> >> }

\* Streams about the map field 6: entries, an entry without a key, an entry
\* that repeats its fields and an entry with a foreign field.
MapItems ==
    { Entry(6, KV(1, 1)), Entry(6, KV(1, 2)), Entry(6, KV(2, 1)),
      Entry(6, << << 2, "int", << 4 >> >> >>),
      Entry(6, << << 2, "int", << 5 >> >>, << 1, "int", << 1 >> >>, << 2, "int", << 6 >> >> >>),
      Entry(6, << << 1, "int", << 1 >> >>, << 3, "int", << 1 >> >> >>) }

\* Streams with fields that have no descriptor (15), at the top level and in
\* a nested message.
UnknownItems ==
    { << 1, "int", << 1 >> >>,
      << 15, "int", << 300 >> >>, << 15, "str", << 97, 98 >> >>,
      << 15, "fix32", << 1, 2, 3, 4 >> >>,
      << 5, "msg", << << 1, "int", << 2 >> >>, << 15, "int", << 2 >> >> >> >> }

UnknownFieldOptions == {"throw", "false", "true", "custom"}

\* The inputs of read(): the stream and options.readUnknownField.
Inputs ==
    (SeqsUpTo(OneofItems, MaxItems) \X {"true"})
    \cup (SeqsUpTo(RepeatedItems, MaxItems) \X {"true"})
    \cup (SeqsUpTo(MessageItems, MaxItems) \X {"true"})
    \cup (SeqsUpTo(MapItems, MaxItems) \X {"true"})
    \cup (SeqsUpTo(UnknownItems, MaxItems) \X UnknownFieldOptions)

\* The state of a read that has not started.
NewRead(b, m) ==
    [pos |-> 0, msg |-> m, err |-> "none", info |-> << >>, calls |-> << >>, n |-> 0]

\* A target that an earlier read() filled.
Populated ==
    LET b == EncodeItems(<< << 1, "int", << 7 >> >>, << 2, "int", << 7 >> >>,
                            << 4, "int", << 7 >> >>,
                            << 5, "msg", << << 1, "int", << 7 >> >>, << 2, "int", << 7 >> >>,
                                             Entry(3, KV(1, 7)) >> >>,
                            Entry(6, KV(1, 7)), Entry(6, KV(9, 7)),
                            << 7, "msg", << << 1, "int", << 7 >> >> >> >>,
                            << 8, "int", << 7 >> >>, << 9, "str", << 98 >> >> >>)
    IN  ReadLoop([buf |-> b, opt |-> "true"], "spec.M", NewRead(b, Create("spec.M")), Len(b)).msg

Targets == {Create("spec.M"), Populated}

(***************************************************************************)
(* read(reader, message, options) as actions: the call, one action per     *)
(* iteration of its loop, and the return.                                  *)
(***************************************************************************)
Rd == [buf |-> rbuf, opt |-> ropt]
St == [pos |-> pos, msg |-> message, err |-> rerr, info |-> rinfo, calls |-> ucalls,
       n |-> iters]

\* A read() about to be called on one of the inputs.
ReadInit(inputs) ==
    /\ NewInit
    /\ calls = 0
    /\ \E in \in inputs :
          /\ wire = in[1]
          /\ ropt = in[2]
          /\ rbuf = EncodeItems(in[1])
          /\ message \in (IF in[2] = "true" THEN Targets ELSE {Create("spec.M")})
    /\ message0 = message
    /\ pos = 0
    /\ rend = 0
    /\ rstate = "new"
    /\ rerr = "none"
    /\ rinfo = << >>
    /\ ucalls = << >>
    /\ nread = 0
    /\ iters = 0

ReaderInit == ReadInit(Inputs)

\* Streams about merging: the message fields and a member of the oneof group.
MergeInputs == SeqsUpTo(MessageItems \cup {<< 2, "int", << 1 >> >>}, MaxItems) \X {"true"}

MergeInit == ReadInit(MergeInputs)

\* read() is called without a length: end = reader.len
ReadCall ==
    /\ rstate = "new"
    /\ rstate' = "reading"
    /\ rend' = Len(rbuf)
    /\ UNCHANGED << wvars, rbuf, ropt, pos, message, rerr, rinfo, ucalls, wire, message0, nread,
                    iters >>

ReadStep ==
    /\ rstate = "reading"
    /\ pos < rend
    /\ \E st \in {ReadField(Rd, "spec.M", St)} :
           /\ pos' = st.pos
           /\ message' = st.msg
           /\ rerr' = st.err
           /\ rinfo' = st.info
           /\ ucalls' = st.calls
           /\ iters' = st.n
           /\ rstate' = IF st.err # "none" THEN "thrown" ELSE "reading"
    /\ nread' = nread + 1
    /\ UNCHANGED << wvars, rbuf, ropt, rend, wire, message0 >>

ReadReturn ==
    /\ rstate = "reading"
    /\ pos >= rend
    /\ rstate' = "returned"
    /\ UNCHANGED << wvars, rbuf, ropt, pos, rend, message, rerr, rinfo, ucalls, wire, message0, nread,
                    iters >>

ReaderNext == ReadCall \/ ReadStep \/ ReadReturn

SpecReader == ReaderInit /\ [][ReaderNext]_vars

SpecMerge == MergeInit /\ [][ReaderNext]_vars

\* The number of map entries of a stream about map entries.
MaxEntries == 2

\* Map entries of the fields m (int32 to int32), bm (bool to enum) and lm
\* (int64 to message): empty, without a value, without a key, with the key
\* and the value repeated, with a field that is neither, and an entry with
\* such a field in the map of a nested message.
EntryItems ==
    { Entry(6, << >>),
      Entry(6, << << 1, "int", << 3 >> >> >>),
      Entry(6, << << 2, "int", << 4 >> >> >>),
      Entry(6, << << 2, "int", << 5 >> >>, << 1, "int", << 1 >> >>,
                  << 2, "int", << 6 >> >>, << 1, "int", << 2 >> >> >>),
      Entry(6, << << 1, "int", << 1 >> >>, << 3, "int", << 1 >> >> >>),
      Entry(6, << << 4, "str", << 97 >> >>, << 1, "int", << 1 >> >>, << 2, "int", << 1 >> >> >>),
      Entry(6, KV(1, 1) \o << << 15, "fix32", << 1, 2, 3, 4 >> >> >>),
      Entry(10, << >>),
      Entry(10, << << 1, "int", << 1 >> >> >>),
      Entry(10, << << 2, "int", << 3 >> >> >>),
      Entry(10, << << 2, "int", << 3 >> >>, << 7, "int", << 1 >> >> >>),
      Entry(11, << >>),
      Entry(11, << << 1, "int", << 5 >> >> >>),
      Entry(11, << << 2, "msg", << << 1, "int", << 1 >> >> >> >>,
                   << 2, "msg", << << 2, "int", << 5 >> >> >> >> >>),
      << 5, "msg", << Entry(3, KV(2, 2)), Entry(3, KV(1, 1) \o << << 3, "int", << 1 >> >> >>) >> >> }

MapInputs == SeqsUpTo(EntryItems, MaxEntries) \X {"true"}

MapInit == ReadInit(MapInputs)

SpecMap == MapInit /\ [][ReaderNext]_vars

\* The number of fields of a stream about repeated fields.
MaxRepeats == 3

\* Occurrences of the repeated fields rs (messages), r and e (numbers) and
\* tags (strings): a message, a message with a repeated field and a map
\* entry, an empty message, a packed run, single values.
AppendItems ==
    { << 7, "msg", << << 1, "int", << 1 >> >> >> >>,
      << 7, "msg", << << 2, "int", << 5 >> >>, Entry(3, KV(1, 1)) >> >>,
      << 7, "msg", << >> >>,
      << 4, "packed", << 2, 300 >> >>,
      << 4, "int", << -1 >> >>,
      << 8, "int", << 1 >> >>,
      << 9, "str", << 97 >> >> }

AppendInputs == SeqsUpTo(AppendItems, MaxRepeats) \X {"true"}

AppendInit == ReadInit(AppendInputs)

SpecAppend == AppendInit /\ [][ReaderNext]_vars

\* Streams about the regions read() opens: a packed run, a map entry and a
\* nested message, each with its length prefix right and with a length prefix
\* that ends inside the last value, and a plain field.
RegionItems ==
    { << 1, "int", << 1 >> >>,
      << 4, "packed", << 2, 300 >> >>,
      << 4, "packed-", << 2, 300 >> >>,
      Entry(6, KV(1, 300)),
      << 6, "msg-", KV(1, 300) >>,
      << 5, "msg", << << 1, "int", << 300 >> >> >> >>,
      << 5, "msg-", << << 1, "int", << 300 >> >> >> >> }

RegionInputs == SeqsUpTo(RegionItems, MaxItems) \X {"true"}

RegionInit == ReadInit(RegionInputs)

SpecRegion == RegionInit /\ [][ReaderNext]_vars

\* Streams about the loops of read(): a packed run of no, one and three
\* values, a map entry with no field and with a key and a value, a nested
\* message with a packed run, a string and a plain field.
TermItems ==
    { << 1, "int", << 1 >> >>,
      << 4, "packed", << >> >>,
      << 4, "packed", << 300 >> >>,
      << 4, "packed", << 1, 2, 3 >> >>,
      Entry(6, << >>),
      Entry(6, KV(1, 2)),
      << 5, "msg", << << 4, "packed", << 1, 2 >> >> >> >>,
      << 3, "str", << 97, 98 >> >> }

TermInputs == SeqsUpTo(TermItems, MaxItems) \X {"true"}

TermInit == ReadInit(TermInputs)

\* read() is called with a length: end = reader.pos + length
ReadCallLength ==
    /\ rstate = "new"
    /\ rstate' = "reading"
    /\ \E length \in 0..Len(rbuf) : rend' = pos + length
    /\ UNCHANGED << wvars, rbuf, ropt, pos, message, rerr, rinfo, ucalls, wire, message0, nread,
                    iters >>

TermNext == ReadCall \/ ReadCallLength \/ ReadStep \/ ReadReturn

SpecTerm == TermInit /\ [][TermNext]_vars

(***************************************************************************)
(* Properties of the writer.                                               *)
(***************************************************************************)
\* What a finish() at level i would return: level i is the i-th saved state
\* of the fork stack, and the writer's own fields for the innermost level.
LevelContent(i) ==
    IF i <= Len(stack)
    THEN Content([chunks |-> stack[i].chunks, buf |-> stack[i].buf, stack |-> << >>])
    ELSE Content(This)

\* A step that is a call of join().
JoinStep == wop' = "join" /\ calls' = calls - 1

\* A step that is a call of finish().
FinishStep == wop' = "finish" /\ calls' = calls - 1

\* C1: fork/join correctness.  At every level (the writer itself and each
\* open fork) the output is what the level held when it was last reset
\* followed by the bytes of the calls made at that level in call order,
\* where a fork(); W; join() counts as one call that emits the uint32 varint
\* of the length of W's output followed by W's output.  Bytes written before
\* the fork() therefore precede that region and bytes written after the
\* join() follow it, for nested pairs too.
C1_ForkJoin ==
    /\ Len(out) = Len(stack) + 1
    /\ Len(base) = Len(out)
    /\ \A i \in 1..Len(out) : LevelContent(i) = base[i] \o out[i]

\* C1 happens: a join() has returned to the writer's own level, bytes were
\* written before the fork(), and W is long enough for a two-byte length.
C1_Witness ==
    /\ wop = "join"
    /\ werr = "none"
    /\ stack = << >>
    /\ LET c == Content(This)
       IN  \E k \in 1..Len(c) :
               /\ Len(c) - k - 2 > 127
               /\ SubSeq(c, k + 1, Len(c)) = Region(SubSeq(c, k + 3, Len(c)))

\* C2: finish() resets the writer: after it returns, the chunk list and the
\* in-progress buffer are empty, so a finish() called next returns nothing.
C2_FinishResets ==
    wop = "finish" => chunks = << >> /\ buf = << >> /\ Content(This) = << >>

\* C7: join() fails with EmptyForkStack exactly when no fork is open, a
\* join() with a fork open returns and closes one fork, and the joins that
\* returned never outnumber the forks.
C7_JoinNeedsFork ==
    [][JoinStep =>
        /\ (stack = << >>) <=> (werr' = "EmptyForkStack")
        /\ stack # << >> => werr' = "none" /\ Len(stack') = Len(stack) - 1
        /\ joins' <= forks'
        /\ joins' = joins + (IF stack = << >> THEN 0 ELSE 1)]_vars

\* C7 happens: a join() has failed after an earlier fork()/join() pair.
C7_Witness == wop = "join" /\ werr = "EmptyForkStack" /\ joins = forks /\ forks > 0

\* C10: with no fork open, finish() returns exactly the bytes the calls
\* since the writer was new or last finished emitted, in call order.
C10_FinishReturnsWritten ==
    [][FinishStep /\ stack = << >> => wret' = out[1]]_vars

(***************************************************************************)
(* Properties of the reader.  The fields of the stream that read() has     *)
(* gone through are Done; what the target must hold is stated from them    *)
(* and from the target as it was when read() was called.                   *)
(***************************************************************************)
Done == SubSeq(wire, 1, nread)

Max(S) == CHOOSE x \in S : \A y \in S : y <= x

\* The places of the fields numbered no.
At(its, no) == {i \in 1..Len(its) : its[i][1] = no}

RECURSIVE Values(_, _)
\* The values the fields numbered no carry, in wire order, packed or not.
Values(its, no) ==
    IF its = << >> THEN << >>
    ELSE (IF Head(its)[1] = no
          THEN [i \in 1..Len(Head(its)[3]) |-> JsInt(Head(its)[3][i])]
          ELSE << >>) \o Values(Tail(its), no)

RECURSIVE Payloads(_, _)
\* The fields inside the length-delimited fields numbered no, concatenated.
Payloads(its, no) ==
    IF its = << >> THEN << >>
    ELSE (IF Head(its)[1] = no THEN Head(its)[3] ELSE << >>) \o Payloads(Tail(its), no)

\* The wire type a field of the stream is written with.
WireTypeOf(it) ==
    CASE it[2] = "int" -> Varint
      [] it[2] = "fix32" -> Bit32
      [] it[2] = "fix64" -> Bit64
      [] OTHER -> LengthDelimited

\* The key and the value a map entry carries: its last field 1 and its last
\* field 2, zero where it has none.
EntryPart(it, no) ==
    IF At(it[3], no) = {} THEN JsInt(0) ELSE JsInt(it[3][Max(At(it[3], no))][3][1])

\* map holds, for each key, the value of the last entry numbered no of its
\* with that key, and what held had for the keys no entry carries.
MapHolds(map, held, its, no) ==
    LET keys == {EntryPart(its[i], 1) : i \in At(its, no)}
        Last(k) == Max({i \in At(its, no) : EntryPart(its[i], 1) = k})
    IN  /\ DOMAIN map = DOMAIN held \cup keys
        /\ \A k \in DOMAIN map :
              map[k] = IF k \in keys THEN EntryPart(its[Last(k)], 2) ELSE held[k]

\* A step of the loop of read().
Reading == rstate = "reading" /\ nread' = nread + 1

\* The field has no descriptor; the field is a nested message with such a
\* field as its last.
IsUnknown(it) == it[1] = 15
HoldsUnknown(it) == it[1] = 5 /\ it[3] # << >> /\ it[3][Len(it[3])][1] = 15

\* C3: after decoding, the record of the oneof group holds the value of at
\* most one member, the one whose tag appeared last on the wire; it is as it
\* was before the read if no member appeared.
C3_OneofExclusive ==
    rerr = "none" =>
        LET group == message.choice
            members == At(Done, 2) \cup At(Done, 3)
            last == Done[Max(members)]
        IN  /\ DOMAIN group \subseteq {"oneofKind", group.oneofKind}
            /\ IF members = {} THEN group = message0.choice
               ELSE IF last[1] = 2 THEN group = [oneofKind |-> "x", x |-> JsInt(last[3][1])]
               ELSE group = [oneofKind |-> "y", y |-> last[3]]

\* Member x, then member y, then member x again, into a target that held x.
C3_Witness ==
    /\ rstate = "returned"
    /\ message0 = Populated
    /\ wire = << << 2, "int", << 1 >> >>, << 3, "str", << 97 >> >>, << 2, "int", << 2 >> >> >>
    /\ message.choice = [oneofKind |-> "x", x |-> JsInt(2)]

\* The target after the bytes E are read into the message m.
Decode(E, m) == ReadLoop([buf |-> E, opt |-> ropt], "spec.M", NewRead(E, m), Len(E))

\* The nested message holds what the fields its, read in order into held,
\* leave: the last value of the singular field, the values of the repeated
\* field appended, the map entries overwritten by key.
MergedN(nested, held, its) ==
    /\ DOMAIN nested = {"v", "items", "nm"}
    /\ nested.v = (IF At(its, 1) = {} THEN held.v ELSE JsInt(its[Max(At(its, 1))][3][1]))
    /\ nested.items = held.items \o Values(its, 2)
    /\ MapHolds(nested.nm, held.nm, its, 3)

\* C4: decoding E1 ++ E2 yields what decoding E1 and then E2 into the result
\* yields; a singular message field that occurs several times is merged: the
\* nested message holds what the concatenation of its occurrences decodes to,
\* on top of what the target held.
C4_MessageMerge ==
    /\ rstate = "returned" =>
          \A k \in 0..Len(wire) :
              \A first \in {Decode(EncodeItems(SubSeq(wire, 1, k)), message0)} :
                  \A second \in {Decode(EncodeItems(SubSeq(wire, k + 1, Len(wire))), first.msg)} :
                      first.err = "none" /\ second.err = "none" /\ second.msg = message
    /\ rerr = "none" =>
          IF At(Done, 5) = {}
          THEN /\ ("sub" \in DOMAIN message) = ("sub" \in DOMAIN message0)
               /\ "sub" \in DOMAIN message => message.sub = message0.sub
          ELSE /\ "sub" \in DOMAIN message
               /\ MergedN(message.sub,
                          IF "sub" \in DOMAIN message0 THEN message0.sub ELSE Create("spec.N"),
                          Payloads(Done, 5))

\* Two occurrences of the singular message field, into a target that held one.
C4_Witness ==
    /\ rstate = "returned"
    /\ message0 = Populated
    /\ wire = << << 5, "msg", << << 2, "packed", << 6 >> >>, Entry(3, KV(1, 1)) >> >>,
                 << 5, "msg", << << 1, "int", << 2 >> >>, << 2, "int", << 5 >> >> >> >> >>
    /\ message.sub = [v |-> JsInt(2), items |-> << JsInt(7), JsInt(6), JsInt(5) >>,
                      nm |-> (JsInt(1) :> JsInt(1))]

\* C5: a repeated scalar or enum field holds the values the wire carries for
\* it, in wire order, whether they come packed, unpacked or mixed and
\* whatever the descriptor says (r is declared PACKED, e UNPACKED); nothing
\* else of the target changes.
C5_PackedUnpacked ==
    rerr = "none" =>
        /\ message.r = message0.r \o Values(Done, 4)
        /\ message.e = message0.e \o Values(Done, 8)
        /\ (\A i \in 1..nread : wire[i][1] \in {4, 8}) =>
              message = [message0 EXCEPT !.r = @ \o Values(Done, 4), !.e = @ \o Values(Done, 8)]

\* A packed run, an unpacked value and a packed run for the field declared
\* UNPACKED.
C5_Witness ==
    /\ rstate = "returned"
    /\ wire = << << 4, "packed", << 2, 300 >> >>, << 4, "int", << -1 >> >>,
                 << 8, "packed", << 2, 1 >> >> >>
    /\ message.r = message0.r \o << JsInt(2), JsInt(300), JsInt(-1) >>
    /\ message.e = message0.e \o << JsInt(2), JsInt(1) >>

\* C6: with readUnknownField true or a callable, a step that meets a tag
\* without a descriptor skips the value and calls the handler once, the default
\* recorder or the callable, with the type name, the target, the field
\* number, the wire type and the bytes skipped; the read goes on with the
\* next tag.  A step that meets no such tag calls no handler.
C6_UnknownRecorded ==
    [][Reading /\ ropt \in {"true", "custom"} =>
        LET it == wire[nread + 1]
            h == IF ropt = "true" THEN "onRead" ELSE "custom"
        IN  IF IsUnknown(it)
            THEN /\ ucalls' = Append(ucalls,
                        [handler |-> h, typeName |-> "spec.M", target |-> message,
                         fieldNo |-> 15, wireType |-> WireTypeOf(it),
                         data |-> Tail(EncodeItem(it))])
                 /\ message' = message
                 /\ pos' = pos + Len(EncodeItem(it))
                 /\ rstate' = "reading"
            ELSE IF HoldsUnknown(it)
            THEN /\ ucalls' = Append(ucalls,
                        [handler |-> h, typeName |-> "spec.N", target |-> message'.sub,
                         fieldNo |-> 15,
                         wireType |-> WireTypeOf(it[3][Len(it[3])]),
                         data |-> Tail(EncodeItem(it[3][Len(it[3])]))])
                 /\ pos' = pos + Len(EncodeItem(it))
                 /\ rstate' = "reading"
            ELSE ucalls' = ucalls]_vars

\* The callable was called for three unknown fields, in wire order.
C6_Witness ==
    /\ rstate = "returned"
    /\ ropt = "custom"
    /\ Len(ucalls) = 3
    /\ << ucalls[1].wireType, ucalls[2].wireType, ucalls[3].wireType >>
           = << LengthDelimited, Bit32, Varint >>
    /\ ucalls[3].typeName = "spec.N"
    /\ ucalls[1].data = << 2, 97, 98 >>

\* C8: with readUnknownField "throw", the step that meets the first tag
\* without a descriptor raises UnknownField naming the type, the field number
\* and the wire type; the cursor stays right after the tag, the target is as
\* the fields before left it, no handler is called and no step follows.
C8_UnknownThrows ==
    [][/\ rstate # "thrown"
       /\ ropt = "throw" =>
            /\ ucalls' = << >>
            /\ Reading =>
                 LET it == wire[nread + 1]
                 IN  IF IsUnknown(it)
                     THEN /\ rstate' = "thrown"
                          /\ rerr' = "UnknownField"
                          /\ rinfo' = << "spec.M", 15, WireTypeOf(it) >>
                          /\ pos' = pos + 1
                          /\ message' = message
                     ELSE IF HoldsUnknown(it)
                     THEN /\ rstate' = "thrown"
                          /\ rerr' = "UnknownField"
                          /\ rinfo' = << "spec.N", 15, WireTypeOf(it[3][Len(it[3])]) >>
                          /\ pos' = pos + Len(EncodeItem(it))
                                        - Len(Tail(EncodeItem(it[3][Len(it[3])])))
                     ELSE rstate' = "reading" /\ rerr' = "none"]_vars

\* A known field, then an unknown length-delimited one, then one more field.
C8_Witness ==
    /\ rstate = "thrown"
    /\ ropt = "throw"
    /\ Len(wire) = 3
    /\ wire[1] = << 1, "int", << 1 >> >>
    /\ wire[2] = << 15, "str", << 97, 98 >> >>
    /\ nread = 2
    /\ rinfo = << "spec.M", 15, LengthDelimited >>
    /\ pos = Len(EncodeItem(wire[1])) + 1
    /\ message.a = JsInt(1)
    /\ ucalls = << >>

\* C9: the map holds, for each key, the value of the last entry on the wire
\* with that key, and the value it had before the read for a key no entry
\* carried.
C9_MapLastWins ==
    rerr = "none" => MapHolds(message.m, message0.m, Done, 6)

\* Three entries, two with the key 1 the map held, into a map that also held
\* the key 9.
C9_Witness ==
    /\ rstate = "returned"
    /\ message0 = Populated
    /\ wire = << Entry(6, KV(1, 1)), Entry(6, KV(2, 1)), Entry(6, KV(1, 2)) >>
    /\ message.m = (JsInt(1) :> JsInt(2)) @@ (JsInt(2) :> JsInt(1)) @@ (JsInt(9) :> JsInt(7))

\* C11: no partial results on a failed decode.  When read() has failed, the
\* target message is equal to what it was before read() was called: no field
\* decoded before the failure remains in it.
C11_NoPartialResults == rstate = "thrown" => message = message0

\* The map fields of spec.M and the local name of each.
MapFieldNos == {6, 10, 11}
MapName(no) == CASE no = 6 -> "m" [] no = 10 -> "bm" [] no = 11 -> "lm"

\* The places in a map entry of the fields that are neither key nor value.
Foreign(it) == {i \in 1..Len(it[3]) : it[3][i][1] \notin {1, 2}}

\* The field is a nested message whose last field is a map entry with a field
\* that is neither key nor value.
HoldsForeign(it) ==
    it[1] = 5 /\ it[3] # << >> /\ it[3][Len(it[3])][1] = 3 /\ Foreign(it[3][Len(it[3])]) # {}

\* C12: map entry decode rejects foreign fields.  A step that decodes a map
\* entry holding a tag whose field number is neither 1 nor 2 fails with
\* MalformedMapEntry, naming the type, the map field, the field number and
\* the wire type of the first such tag, and inserts no pair of that entry into
\* the target map; a step that meets no such entry does not raise the error.
C12_MalformedMapEntry ==
    [][Reading =>
        LET it == wire[nread + 1]
        IN  IF it[1] \in MapFieldNos /\ Foreign(it) # {}
            THEN LET f == it[3][CHOOSE i \in Foreign(it) : \A j \in Foreign(it) : i <= j]
                 IN  /\ rstate' = "thrown"
                     /\ rerr' = "MalformedMapEntry"
                     /\ rinfo' = << "spec.M", MapName(it[1]), f[1], WireTypeOf(f) >>
                     /\ message' = message
            ELSE IF HoldsForeign(it)
            THEN /\ rstate' = "thrown"
                 /\ rerr' = "MalformedMapEntry"
                 /\ rinfo' = << "spec.N", "nm", 3, Varint >>
                 /\ ("sub" \in DOMAIN message') = ("sub" \in DOMAIN message)
                 /\ "sub" \in DOMAIN message =>
                       MapHolds(message'.sub.nm, message.sub.nm,
                                SubSeq(it[3], 1, Len(it[3]) - 1), 3)
            ELSE rerr' # "MalformedMapEntry"]_vars

\* An entry is inserted, then an entry that carries a key and a value before
\* its foreign field fails and leaves the map as the first entry made it.
C12_Witness ==
    /\ rstate = "thrown"
    /\ rerr = "MalformedMapEntry"
    /\ message0 = Create("spec.M")
    /\ wire = << Entry(6, << << 1, "int", << 3 >> >> >>),
                 Entry(6, KV(1, 1) \o << << 15, "fix32", << 1, 2, 3, 4 >> >> >>) >>
    /\ rinfo = << "spec.M", "m", 15, Bit32 >>
    /\ message.m = (JsInt(3) :> JsInt(0))

\* The key a map entry without foreign fields yields: its last field 1, zero
\* where it has none, as the key type of the map field represents it.
EntryKey(it) ==
    LET ks == At(it[3], 1)
        k == IF ks = {} THEN 0 ELSE it[3][Max(ks)][3][1]
    IN  CASE it[1] = 6 -> JsInt(k)
          [] it[1] = 10 -> (IF k # 0 THEN "true" ELSE "false")
          [] it[1] = 11 -> [long |-> JsInt(k), as |-> "STRING"]

\* val is the value a map entry without foreign fields yields: its last field
\* 2, the zero value of the value type where it has none.
EntryValIs(val, it) ==
    LET vs == At(it[3], 2)
    IN  IF it[1] = 11
        THEN IF vs = {} THEN val = Create("spec.N")
             ELSE MergedN(val, Create("spec.N"), it[3][Max(vs)][3])
        ELSE val = JsInt(IF vs = {} THEN 0 ELSE it[3][Max(vs)][3][1])

\* C13: map entry defaults.  A step that decodes a map entry sets, in the map
\* of the field, the entry's key to the entry's value and changes nothing
\* else; a missing key is the zero value of K ("false" for BOOL, 0 for int32,
\* "0" for int64), a missing value the zero value of V (0 for a scalar or an
\* enum, a newly created message for a message), so an entry of zero length
\* inserts (default key, default value); of several fields 1 or 2 in one entry
\* the last is used.
C13_MapEntryDefaults ==
    [][(/\ Reading
        /\ wire[nread + 1][1] \in MapFieldNos
        /\ Foreign(wire[nread + 1]) = {}) =>
            LET it == wire[nread + 1]
                name == MapName(it[1])
                k == EntryKey(it)
            IN  /\ rstate' = "reading"
                /\ DOMAIN message' = DOMAIN message
                /\ \A n \in DOMAIN message \ {name} : message'[n] = message[n]
                /\ DOMAIN message'[name] = DOMAIN message[name] \cup {k}
                /\ \A j \in DOMAIN message[name] \ {k} : message'[name][j] = message[name][j]
                /\ EntryValIs(message'[name][k], it)]_vars

\* An entry of zero length for each of the three maps.
C13_Witness ==
    /\ rstate = "returned"
    /\ message0 = Create("spec.M")
    /\ wire = << Entry(11, << >>), Entry(10, << >>) >>
    /\ message.lm = ([long |-> JsInt(0), as |-> "STRING"] :> Create("spec.N"))
    /\ message.bm = ("false" :> JsInt(0))

\* A step that is a call of a typed 32-bit write.
Unsigned32 == {"uint32", "fixed32"}
Signed32 == {"int32", "sint32", "sfixed32"}
TypedStep == wop' \in Unsigned32 \cup Signed32 /\ calls' = calls - 1

\* C14: strict numeric asserts with no partial write.  A typed 32-bit write
\* whose argument is no integer or lies outside the range (0..2^32-1 for
\* uint32 and fixed32, -2^31..2^31-1 for int32, sint32 and sfixed32) fails with
\* RangeError and leaves the chunk list, the in-progress buffer and the fork
\* stack as they were; with the nearest argument inside the range the call
\* returns and writes.
C14_RangeError ==
    [][TypedStep =>
        IF warg' \in (IF wop' \in Unsigned32 THEN NoUInt32 ELSE NoInt32)
        THEN /\ werr' = "RangeError"
             /\ chunks' = chunks
             /\ buf' = buf
             /\ stack' = stack
        ELSE /\ werr' = "none"
             /\ << chunks', buf' >> # << chunks, buf >>
             /\ stack' = stack]_vars

\* sint32(2^31) has failed in a fork, on a writer whose chunk list, buffer
\* and fork stack all hold something.
C14_Witness ==
    /\ wop = "sint32"
    /\ warg = JsPow2(31)
    /\ werr = "RangeError"
    /\ chunks # << >>
    /\ buf # << >>
    /\ stack # << >>
    /\ out[Top] = Content(This)

\* C15: repeated message fields never merge.  A step that decodes an
\* occurrence of the repeated message field rs appends one message to the
\* array: the message the occurrence decodes to starting from a newly created
\* one, whatever the array held; the elements the array held are unchanged
\* and so is the rest of the target.
C15_RepeatedNeverMerge ==
    [][Reading /\ wire[nread + 1][1] = 7 =>
        /\ rstate' = "reading"
        /\ Len(message'.rs) = Len(message.rs) + 1
        /\ SubSeq(message'.rs, 1, Len(message.rs)) = message.rs
        /\ MergedN(message'.rs[Len(message'.rs)], Create("spec.N"), wire[nread + 1][3])
        /\ message' = [message EXCEPT !.rs = message'.rs]]_vars

\* Two occurrences into an array that held one element: three elements, the
\* second occurrence not merged into the first.
C15_Witness ==
    /\ rstate = "returned"
    /\ message0 = Populated
    /\ wire = << << 7, "msg", << << 1, "int", << 1 >> >> >> >>,
                 << 7, "msg", << << 2, "int", << 5 >> >>, Entry(3, KV(1, 1)) >> >> >>
    /\ message.rs = << [v |-> JsInt(7), items |-> << >>, nm |-> << >>],
                       [v |-> JsInt(1), items |-> << >>, nm |-> << >>],
                       [v |-> JsInt(0), items |-> << JsInt(5) >>, nm |-> (JsInt(1) :> JsInt(1))] >>

RECURSIVE Strings(_, _)
\* The strings the fields numbered no carry, in wire order.
Strings(its, no) ==
    IF its = << >> THEN << >>
    ELSE (IF Head(its)[1] = no THEN << Head(its)[3] >> ELSE << >>) \o Strings(Tail(its), no)

RECURSIVE Strip(_)
\* The stream without its fields that have no descriptor, at the top level
\* and inside the nested message.
Strip(its) ==
    IF its = << >> THEN << >>
    ELSE LET it == Head(its)
         IN  (IF it[1] = 15 THEN << >>
              ELSE IF it[1] = 5 THEN << << 5, "msg", Strip(it[3]) >> >>
              ELSE << it >>) \o Strip(Tail(its))

\* C16: with readUnknownField false, a tag without a descriptor is skipped
\* without any effect on the target.  At every point of the read no handler
\* has been invoked, no error is raised, the cursor is past the bytes of the
\* fields gone through, and the target is what decoding those fields with
\* every unknown field removed yields.
C16_UnknownSkipped ==
    ropt = "false" =>
        /\ ucalls = << >>
        /\ rerr = "none"
        /\ pos = Len(EncodeItems(Done))
        /\ message = Decode(EncodeItems(Strip(Done)), message0).msg

\* A known field, an unknown length-delimited field and a nested message that
\* ends in an unknown field.
C16_Witness ==
    /\ rstate = "returned"
    /\ ropt = "false"
    /\ wire = << << 1, "int", << 1 >> >>, << 15, "str", << 97, 98 >> >>,
                 << 5, "msg", << << 1, "int", << 2 >> >>, << 15, "int", << 2 >> >> >> >> >>
    /\ pos = Len(rbuf)
    /\ message = [Create("spec.M") EXCEPT !.a = JsInt(1)]
                    @@ [sub |-> [Create("spec.N") EXCEPT !.v = JsInt(2)]]

RECURSIVE Groups(_)
\* The low 7 bits of each byte, least significant group first, as one word.
Groups(bs) ==
    IF bs = << >> THEN << >> ELSE Pad(MinBits(Head(bs) % 128), 7) \o Groups(Tail(bs))

\* The bytes a step added to the in-progress buffer.
Added == SubSeq(buf', Len(buf) + 1, Len(buf'))

\* The word value a step wrote: the argument of uint32, and for tag the
\* field number above the three bits of the wire type.
Written ==
    IF wop' = "tag" THEN Trim(Pad(MinBits(warg'[2]), 3) \o MinBits(warg'[1]))
    ELSE Trim(warg'.mag)

\* C17: uint32(v) emits the canonical varint of v.  For an integer
\* 0 <= v <= 2^32-1 the call appends 1 to 5 bytes to the in-progress buffer
\* and changes nothing else of the writer; every byte but the last has the
\* continuation bit set, the last has it clear and is non-zero unless v = 0,
\* and the low 7 bits of the bytes, least significant group first, give back
\* v.  tag(fieldNo, wireType) emits what uint32 emits for
\* (fieldNo << 3) | wireType.
C17_CanonicalVarint ==
    [][wop' \in {"uint32", "tag"} /\ calls' = calls - 1 =>
        /\ werr' = "none"
        /\ chunks' = chunks
        /\ stack' = stack
        /\ buf' = buf \o Added
        /\ Len(Added) \in 1..5
        /\ \A i \in 1..(Len(Added) - 1) : Added[i] \in 128..255
        /\ Added[Len(Added)] \in 0..127
        /\ Added[Len(Added)] = 0 => Written = << >>
        /\ Trim(Groups(Added)) = Written
        /\ wop' = "tag" =>
              Added = Emits(uint32(NewWriter, [neg |-> FALSE, mag |-> Written, frac |-> FALSE]))]_vars

\* uint32(300), then the tag of the largest field number with wire type 5,
\* whose value is 2^32 - 3.
C17_Witness ==
    /\ wop = "tag"
    /\ warg = << 536870911, 5 >>
    /\ werr = "none"
    /\ buf = << 172, 2, 253, 255, 255, 255, 15 >>

\* C18: sub-region bound of read().  A read() without a length returns with
\* the cursor at the end of the buffer, and a step that decodes a packed run,
\* a map entry or a nested message (a read() with a length) without error
\* leaves the cursor exactly at the end of the region its length prefix
\* announces: no byte beyond the region is consumed.
C18_SubRegionBound ==
    [][/\ rstate' = "returned" => pos' = Len(rbuf)
       /\ (/\ Reading
           /\ rerr' = "none"
           /\ WireTypeOf(wire[nread + 1]) = LengthDelimited) =>
              pos' = pos + 2 + rbuf[pos + 2]]_vars

\* C20: a failed join() does not lose output.  A join() that fails with
\* EmptyForkStack leaves the chunk list and the in-progress buffer as they
\* were before the call, so that a finish() called next returns every byte
\* written before the failed join().
C20_FailedJoinKeepsOutput ==
    [][JoinStep /\ werr' = "EmptyForkStack" =>
        /\ chunks' = chunks
        /\ buf' = buf
        /\ Content([chunks |-> chunks', buf |-> buf', stack |-> stack']) = Content(This)]_vars

\* The iterations a step of read() ran: the one of the tag loop and those
\* of the packed run or of the map entry (and of the nested messages) it
\* decoded; each of them moved the cursor by one byte or more.
Progress ==
    /\ iters' > iters
    /\ pos' > pos
    /\ iters' - iters <= pos' - pos

\* C21: read() terminates on every finite input.  The tag loop, the loop of
\* a packed run and the loop of a map entry move the cursor forward on every
\* iteration, so that read(), called with the cursor at 0, has run at most
\* end - 0 iterations in total (all loops counted) when it returns or
\* fails, also on packed runs and map entries of length zero.
C21_BoundedIterations ==
    [][Reading => Progress /\ iters' <= rend]_vars

=============================================================================
